---- MODULE Spec2Model ----
(***************************************************************************)
(* The benchmark evaluation engine of querydawg:                           *)
(*   backend/app/services/benchmark_runner.py  (BenchmarkRunner)           *)
(*   backend/app/database/benchmark_store.py   (BenchmarkStore)            *)
(*   backend/app/routers/benchmark.py          (cancel_run)                *)
(*                                                                         *)
(* Spec      one run of run_benchmark, step by step at its store calls,    *)
(*           interleaved with the cancel_run endpoint.                     *)
(* SpecFair  the same for short runs, with run_benchmark always taking its *)
(*           next step: every call it makes returns or raises.             *)
(* SpecExec  calls of check_execution_match, step by step through          *)
(*           execute_sql_safely (getconn, try/except, finally) and its     *)
(*           retry decorator, on one connection pool.                      *)
(* SpecRuns  two background tasks of start_benchmark, each with the runner *)
(*           its request built, interleaved at their store requests.       *)
(* SpecStore calls of BenchmarkStore methods and of the client's           *)
(*           convenience methods, attempt by attempt.                      *)
(* SpecSql   calls of check_exact_match on token lists of SQL statements.  *)
(* SpecLoad  calls of load_spider_questions, item by item of dev.json.     *)
(*                                                                         *)
(* Money is counted in whole dollars.  Python's None is the empty tuple,   *)
(* a present value x the one-element tuple <<x>>.  Timestamps             *)
(* (datetime.utcnow()) are read off a logical clock, Now: the number of    *)
(* questions whose loop iteration has begun.                               *)
(***************************************************************************)
EXTENDS Integers, Sequences, FiniteSets, TLC

None == << >>
Some(x) == << x >>

(***************************************************************************)
(* Bounds of the model.                                                    *)
(***************************************************************************)
\* the longest question set of a run; above CancelCheckInterval so that the
\* second cancellation poll (question index 10) happens
MaxQuestions == 11
\* the questions with an index below this get every answer the generator and
\* the store can give; the later ones of a long run get the steady answer
VariedQuestions == 2
\* how many store calls of one run may raise
MaxStoreFaults == 2
\* how many record_cost calls each of two concurrent runs makes
MaxTaskCalls == 2
\* the longest dev.json that load_spider_questions reads
MaxSource == 3

(***************************************************************************)
(* Program constants.                                                      *)
(***************************************************************************)
\* maxconn=10 (benchmark_runner.py:82)
MaxConn == 10
\* stop_after_attempt(3) (benchmark_runner.py:271)
MaxAttempts == 3
\* budget_limit_usd=5.0 (routers/benchmark.py:45)
BudgetLimit == 5
\* "if i % 10 == 0" (benchmark_runner.py:572)
CancelCheckInterval == 10
\* stop_after_attempt(5) (supabase_client.py:35)
MaxStoreAttempts == 5

RunTypes == {"baseline", "enhanced", "both"}

\* BenchmarkConfig as far as run_benchmark reads it: the run_type and the
\* number of questions load_spider_questions returns for it
Configs ==
    [run_type : RunTypes, question_count : 0 .. VariedQuestions]
        \cup [run_type : {"baseline"}, question_count : {MaxQuestions}]

\* what one generator call costs (metadata["cost_usd"])
Costs == {2, 3}
\* metadata["tokens_used"]
TokenCounts == {100}
\* response["sql"]: a statement that reproduces the gold rows, one that
\* returns other rows
GeneratedSqls == {"SELECT gold", "SELECT other"}

VARIABLES
    calls,              \* the calls of check_execution_match, by caller
    checked_out,        \* the connections checked out of db_pool
    config,             \* the BenchmarkConfig run_benchmark was called with
    pc,                 \* where run_benchmark stands
    i,                  \* the loop index of run_benchmark
    completed,          \* run_benchmark's local counter
    failed,             \* run_benchmark's local counter
    total_cost,         \* BenchmarkRunner.total_cost
    result_data,        \* the result dict of the question in progress
    exc,                \* the exception on its way to an except clause
    outcome,            \* what run_benchmark's caller has seen
    run_id,             \* run_benchmark's run_id; 0 before create_run
    store_faults,       \* how many store calls have raised
    benchmark_runs,     \* the benchmark_runs table: row k is run id k
    benchmark_results,  \* the benchmark_results table
    tasks,              \* the background tasks of start_benchmark, by task
    runner_total,       \* BenchmarkRunner.total_cost, by runner instance
    store_call,         \* one call of a store operation, request by request
    sql_call,           \* one call of check_exact_match, line by line
    load_call           \* one call of load_spider_questions, item by item

runVars == << config, pc, i, completed, failed, total_cost, result_data, exc,
              outcome, run_id, store_faults, benchmark_runs, benchmark_results >>
execVars == << calls, checked_out >>
taskVars == << tasks, runner_total >>
\* the variables of the other specifications than Spec and SpecExec
storeVars == << store_call >>
sqlVars == << sql_call >>
loadVars == << load_call >>
sideVars == << taskVars, storeVars, sqlVars, loadVars >>
vars == << runVars, execVars, sideVars >>

(***************************************************************************)
(* BenchmarkStore: the operations run_benchmark and cancel_run call.  Each *)
(* yields the benchmark_runs table after the call.  An update that names   *)
(* an id with no row changes nothing (.eq("id", run_id) matches no row).   *)
(***************************************************************************)
UpdateRow(runs, rid, updates) ==
    [k \in DOMAIN runs |->
        IF k = rid
        THEN [f \in DOMAIN runs[k] |->
                 IF f \in DOMAIN updates THEN updates[f] ELSE runs[k][f]]
        ELSE runs[k]]

\* create_run: the row inserted, with the columns the insert leaves unset NULL
CreateRunRow(cfg) ==
    [ run_type             |-> cfg.run_type,
      question_count       |-> cfg.question_count,
      status               |-> "pending",
      status_reason        |-> None,
      last_error           |-> None,
      completed_count      |-> 0,
      failed_count         |-> 0,
      current_question     |-> None,
      total_cost_usd       |-> 0,
      baseline_cost_usd    |-> None,
      enhanced_cost_usd    |-> None,
      started_at           |-> None,
      completed_at         |-> None,
      cancelled_at         |-> None,
      baseline_exact_match |-> None,
      baseline_exec_match  |-> None,
      enhanced_exact_match |-> None,
      enhanced_exec_match  |-> None ]

\* update_run_status(rid, status, status_reason, error) at time now
\* update_run_status that does not write the error text
UpdateRunStatusWithoutError(runs, rid, status, status_reason, error, now) ==
    UpdateRow(runs, rid,
              IF status_reason # None
              THEN [status |-> status, status_reason |-> status_reason]
              ELSE [status |-> status])

\* update_run_status(run_id, status, status_reason, error)
UpdateRunStatus(runs, rid, status, status_reason, error, now) ==
    LET u1 == [status |-> status]
        u2 == IF status_reason # None
              THEN u1 @@ [status_reason |-> status_reason] ELSE u1
        u3 == IF error # None THEN u2 @@ [last_error |-> error] ELSE u2
        u4 == IF status = "running" THEN u3 @@ [started_at |-> Some(now)]
              ELSE IF status = "completed"
              THEN u3 @@ [completed_at |-> Some(now)]
              ELSE IF status = "cancelled"
              THEN u3 @@ [cancelled_at |-> Some(now)]
              ELSE u3
    IN  UpdateRow(runs, rid, u4)

\* update_run_progress that writes current_question only when one is given
UpdateRunProgressKeepsQuestion(runs, rid, n_completed, n_failed, current_question) ==
    UpdateRow(runs, rid,
              IF current_question = None
              THEN [ completed_count |-> n_completed, failed_count |-> n_failed ]
              ELSE [ completed_count  |-> n_completed,
                     failed_count     |-> n_failed,
                     current_question |-> current_question ])

\* update_run_progress that writes the current question and no counter
UpdateRunProgressWithoutCounters(runs, rid, n_completed, n_failed, current_question) ==
    UpdateRow(runs, rid, [ current_question |-> current_question ])

\* update_run_progress(rid, completed, failed, current_question)
UpdateRunProgress(runs, rid, n_completed, n_failed, current_question) ==
    UpdateRow(runs, rid,
              [ completed_count  |-> n_completed,
                failed_count     |-> n_failed,
                current_question |-> current_question ])

\* float(current[col] or 0)
OrZero(v) == IF v = None THEN 0 ELSE v[1]

\* update_run_cost that writes the additional cost over the total
UpdateRunCostOverwrites(runs, rid, additional_cost, approach) ==
    IF rid \notin DOMAIN runs THEN runs
    ELSE UpdateRow(runs, rid, [total_cost_usd |-> additional_cost])

\* update_run_cost that writes the total and leaves the column of the
\* approach as it is
UpdateRunCostTotalOnly(runs, rid, additional_cost, approach) ==
    IF rid \notin DOMAIN runs THEN runs
    ELSE
    LET current == runs[rid]
    IN  UpdateRow(runs, rid,
                  [total_cost_usd |-> current.total_cost_usd + additional_cost])

\* update_run_cost(rid, additional_cost, approach)
UpdateRunCost(runs, rid, additional_cost, approach) ==
    IF rid \notin DOMAIN runs THEN runs
    ELSE
    LET current == runs[rid]
        u1 == [total_cost_usd |-> current.total_cost_usd + additional_cost]
        u2 == IF approach = "baseline"
              THEN u1 @@ [baseline_cost_usd |->
                            Some(OrZero(current.baseline_cost_usd) + additional_cost)]
              ELSE IF approach = "enhanced"
              THEN u1 @@ [enhanced_cost_usd |->
                            Some(OrZero(current.enhanced_cost_usd) + additional_cost)]
              ELSE u1
    IN  UpdateRow(runs, rid, u2)

\* sum(1 for r in results if r.get(col) is True) and ... is not None
RECURSIVE CountWhere(_, _, _)
CountWhere(results, col, wanted) ==
    IF results = << >> THEN 0
    ELSE (IF Head(results)[col] \in wanted THEN 1 ELSE 0)
         + CountWhere(Tail(results), col, wanted)

\* count / total if total > 0 else None; the rate is kept as the pair
Rate(results, col) ==
    LET count == CountWhere(results, col, {Some(TRUE)})
        total == CountWhere(results, col, {Some(TRUE), Some(FALSE)})
    IN  IF total > 0 THEN Some(<< count, total >>) ELSE None

\* the results of one run
ResultsOf(results, rid) ==
    SelectSeq(results, LAMBDA r : r.run_id = rid)

\* calculate_and_save_metrics that reads the results and writes nothing
CalculateAndSaveNothing(runs, results, rid) == runs

\* calculate_and_save_metrics(rid)
CalculateAndSaveMetrics(runs, results, rid) ==
    LET data == ResultsOf(results, rid)
    IN  IF data = << >> THEN runs
        ELSE UpdateRow(runs, rid,
                 [ baseline_exact_match |-> Rate(data, "baseline_exact_match"),
                   baseline_exec_match  |-> Rate(data, "baseline_exec_match"),
                   enhanced_exact_match |-> Rate(data, "enhanced_exact_match"),
                   enhanced_exec_match  |-> Rate(data, "enhanced_exec_match") ])

(***************************************************************************)
(* The collaborators' answers, as run_benchmark sees them.                 *)
(***************************************************************************)
\* generator.generate_sql(question): a response, or an exception
GeneratorFailure == [ok |-> FALSE, sql |-> "", cost |-> 0, tokens |-> 0]
GeneratorResponses ==
    {GeneratorFailure}
        \cup [ok : {TRUE}, sql : GeneratedSqls, cost : Costs, tokens : TokenCounts]

\* the gold statement of every question
GoldSql == "SELECT gold"

\* execute_sql_safely's return value (rows, error)
ExecRows(rows) == [rows |-> rows, error |-> None]
ExecError(text) == [rows |-> << >>, error |-> Some(text)]
\* the rows of the statements that run, in the order the table holds them:
\* OtherRows has the rows of GoldRows, one of them once instead of twice
GoldRows == << << 10 >>, << 2 >>, << 2 >> >>
OtherRows == << << 10 >>, << 2 >> >>

\* str(n) of a number below 100, as character codes
StrOfNumber(n) ==
    IF n < 10 THEN << 48 + n >> ELSE << 48 + (n \div 10), 48 + (n % 10) >>

\* str(x) of a row of one column, as character codes: "(n,)"
StrOfRow(x) == << 40 >> \o StrOfNumber(x[1]) \o << 44, 41 >>

\* s < t on Python strings
RECURSIVE StrLess(_, _)
StrLess(s, t) ==
    IF t = << >> THEN FALSE
    ELSE IF s = << >> THEN TRUE
    ELSE IF Head(s) # Head(t) THEN Head(s) < Head(t)
    ELSE StrLess(Tail(s), Tail(t))

\* a sorted list with one more row put behind the rows whose key is not
\* above its own (sorted is stable)
RECURSIVE InsertRow(_, _)
InsertRow(sorted_rows, x) ==
    IF sorted_rows = << >> THEN << x >>
    ELSE IF StrLess(StrOfRow(x), StrOfRow(Head(sorted_rows)))
    THEN << x >> \o sorted_rows
    ELSE << Head(sorted_rows) >> \o InsertRow(Tail(sorted_rows), x)

\* the rows as fetchall returned them: no sorting
Unsorted(results) == results

\* sorted(results, key=lambda x: str(x))
RECURSIVE Sorted(_)
Sorted(results) ==
    IF results = << >> THEN << >>
    ELSE InsertRow(Sorted(SubSeq(results, 1, Len(results) - 1)),
                   results[Len(results)])

\* str(e) of the exceptions the model raises
GeneratorErrorText == << "generator error" >>
BudgetErrorText == << "Budget limit exceeded" >>
StoreErrorText == << "store error" >>

\* the answer of the generator to the questions that are not varied
SteadyResponse == [ok |-> TRUE, sql |-> GoldSql, cost |-> 2, tokens |-> 100]

\* the answers of the generator to question q
GeneratorResponsesAt(q) ==
    IF q < VariedQuestions THEN GeneratorResponses ELSE {SteadyResponse}

\* the database: what execute_sql_safely returns for a statement
ExecuteSqlSafely(query) ==
    IF query = GoldSql THEN ExecRows(Sorted(GoldRows))
    ELSE ExecRows(Sorted(OtherRows))

\* the store calls that may still raise: TRUE is a call that succeeds
StoreOutcomes == IF store_faults < MaxStoreFaults THEN BOOLEAN ELSE {TRUE}

\* the same for the store calls of the loop body of question q
StoreOutcomesAt(q) == IF q < VariedQuestions THEN StoreOutcomes ELSE {TRUE}

(***************************************************************************)
(* The executor: execute_sql_safely on db_pool, step by step, and the      *)
(* check_execution_match that calls it.                                    *)
(***************************************************************************)
\* the threads that call check_execution_match on one runner
Callers == {1, 2}

\* the statements: the gold one, one with the same rows, one with other
\* rows, one the database rejects
Statements == {"SELECT gold", "SELECT same", "SELECT other", "SELECT bad"}
GoldStatements == {"SELECT gold", "SELECT bad"}

\* cur.execute(query); cur.fetchall(): what the statement does on the
\* database.  "rows": the rows come back; "error": the database rejects the
\* statement, the connection stays usable; "lost": the connection breaks
\* (OperationalError) and psycopg2 marks it closed
DbOutcomes(query) ==
    IF query = "SELECT bad" THEN {"error", "lost"} ELSE {"rows", "lost"}

\* str(e) of the exceptions of the executor
SqlErrorText == << "syntax error" >>
ConnectionLostText == << "server closed the connection unexpectedly" >>
AlreadyClosedText == << "connection already closed" >>
PoolExhaustedText == << "connection pool exhausted" >>
RetryErrorText == << "RetryError" >>

\* a caller's frame of check_execution_match and of the execute_sql_safely
\* it is in
NoCall ==
    [ pc            |-> "idle",
      gold_sql      |-> "",
      generated_sql |-> "",
      which         |-> "",         \* the statement execute_sql_safely runs
      attempt       |-> 0,          \* the attempt of the retry decorator
      attempts      |-> << >>,      \* what the attempts so far have met
      unreturned    |-> 0,          \* connections got and not put back
      conn          |-> "none",     \* conn: "none", "open" or "closed"
      pending       |-> None,       \* the value a return statement has set
      gold_out      |-> None,       \* (gold_results, gold_error)
      gen_out       |-> None,       \* (gen_results, gen_error)
      gold_raised   |-> FALSE,      \* executing the gold statement raised
      executed      |-> << >>,      \* the statements sent to the database
      result        |-> None ]      \* what check_execution_match gave

(***************************************************************************)
(* BenchmarkRunner: comparison and cost ledger.                            *)
(***************************************************************************)
(***************************************************************************)
(* SQL text.  A statement is the sequence of its tokens, written with one  *)
(* blank between two tokens, none after "(" and none before ")" and ",".   *)
(* A token has a kind: "word" (a keyword or an unquoted name), "col"       *)
(* (alias.name, the alias a letter and digits), "op", "comma", "lparen",   *)
(* "rparen", "dq" (text in double quotes) and "sq" (text in single         *)
(* quotes).  Quoted text holds letters only.                               *)
(***************************************************************************)
Word(text) == [kind |-> "word", alias |-> "", text |-> text]
Col(alias, text) == [kind |-> "col", alias |-> alias, text |-> text]
Op(text) == [kind |-> "op", alias |-> "", text |-> text]
Dq(text) == [kind |-> "dq", alias |-> "", text |-> text]
Sq(text) == [kind |-> "sq", alias |-> "", text |-> text]
Comma == [kind |-> "comma", alias |-> "", text |-> ","]
LParen == [kind |-> "lparen", alias |-> "", text |-> "("]
RParen == [kind |-> "rparen", alias |-> "", text |-> ")"]

\* str.lower() and str.upper() on the texts of the statements followed
Lower(text) ==
    CASE text = "SELECT" -> "select" [] text = "FROM" -> "from"
      [] text = "WHERE" -> "where"   [] text = "IN" -> "in"
      [] text = "LIKE" -> "like"     [] text = "NOT" -> "not"
      [] text = "GROUP" -> "group"   [] text = "BY" -> "by"
      [] text = "ORDER" -> "order"   [] text = "AS" -> "as"
      [] text = "JOIN" -> "join"     [] text = "Name" -> "name"
      [] text = "Paris" -> "paris"   [] text = "Rome" -> "rome"
      [] text = "T1" -> "t1"         [] text = "T2" -> "t2"
      [] OTHER -> text
Upper(text) ==
    CASE Lower(text) = "select" -> "SELECT" [] Lower(text) = "from" -> "FROM"
      [] Lower(text) = "where" -> "WHERE"   [] Lower(text) = "in" -> "IN"
      [] Lower(text) = "like" -> "LIKE"     [] Lower(text) = "not" -> "NOT"
      [] Lower(text) = "group" -> "GROUP"   [] Lower(text) = "by" -> "BY"
      [] Lower(text) = "order" -> "ORDER"   [] Lower(text) = "as" -> "AS"
      [] Lower(text) = "join" -> "JOIN"     [] Lower(text) = "name" -> "NAME"
      [] Lower(text) = "paris" -> "PARIS"   [] Lower(text) = "rome" -> "ROME"
      [] Lower(text) = "city" -> "CITY"     [] Lower(text) = "a" -> "A"
      [] Lower(text) = "b" -> "B"           [] Lower(text) = "t" -> "T"
      [] Lower(text) = "u" -> "U"
      [] OTHER -> text

\* token k of sql is the word w, in any case (re.IGNORECASE)
IsWord(sql, k, w) ==
    /\ k \in DOMAIN sql
    /\ sql[k].kind = "word"
    /\ Upper(sql[k].text) = w

\* lines 166-178: token k ends one of the eleven prefixes after which a
\* double-quoted text is taken for a string: a comparison operator, "IN (",
\* a comma, LIKE, NOT LIKE
EndsLiteralPrefix(sql, k) ==
    /\ k \in DOMAIN sql
    /\ \/ /\ sql[k].kind = "op"
          /\ sql[k].text \in {"=", "!=", "<>", ">", "<", ">=", "<="}
       \/ sql[k].kind = "lparen" /\ IsWord(sql, k - 1, "IN")
       \/ sql[k].kind = "comma"
       \/ IsWord(sql, k, "LIKE")

\* lines 180-182: the re.sub of every pattern: "text" after a prefix
\* becomes 'text'; [^"]+ needs a text that is not empty
QuoteLiterals(sql) ==
    [k \in DOMAIN sql |->
        IF sql[k].kind = "dq" /\ sql[k].text # "" /\ EndsLiteralPrefix(sql, k - 1)
        THEN Sq(sql[k].text)
        ELSE sql[k]]

\* the first k from from on where the word w stands, Len(sql) + 1 if none
RECURSIVE FirstWord(_, _, _)
FirstWord(sql, ws, from) ==
    IF from > Len(sql) THEN Len(sql) + 1
    ELSE IF \E w \in ws : IsWord(sql, from, w) THEN from
    ELSE FirstWord(sql, ws, from + 1)

\* line 190: where "GROUP BY" begins, Len(sql) + 1 if nowhere
RECURSIVE GroupByFrom(_, _)
GroupByFrom(sql, from) ==
    IF from > Len(sql) THEN Len(sql) + 1
    ELSE IF IsWord(sql, from, "GROUP") /\ IsWord(sql, from + 1, "BY") THEN from
    ELSE GroupByFrom(sql, from + 1)

\* lines 199-217: the alias.name columns of the select list, in order; the
\* statements followed call no aggregate function, so none is skipped
RECURSIVE ColumnsOf(_)
ColumnsOf(clause) ==
    IF clause = << >> THEN << >>
    ELSE IF Head(clause).kind = "col"
    THEN << Head(clause) >> \o ColumnsOf(Tail(clause))
    ELSE ColumnsOf(Tail(clause))

\* "col in group_by_clause": the column stands in the clause
InClause(col, clause) ==
    \E k \in DOMAIN clause :
        /\ clause[k].kind = "col"
        /\ clause[k].alias = col.alias
        /\ clause[k].text = col.text

\* lines 215-218: add the columns that the clause does not hold yet
RECURSIVE AddMissing(_, _)
AddMissing(clause, cols) ==
    IF cols = << >> THEN clause
    ELSE IF InClause(Head(cols), clause)
    THEN AddMissing(clause, Tail(cols))
    ELSE AddMissing(clause \o << Comma, Head(cols) >>, Tail(cols))

\* lines 184-226: the GROUP BY clause, when it names a column by an alias,
\* is extended by the alias.name columns of the select list
ExpandGroupBy(sql) ==
    LET g == GroupByFrom(sql, 1)
        stop == FirstWord(sql, {"HAVING", "ORDER", "LIMIT"}, g + 2)
        group_by_clause == SubSeq(sql, g + 2, stop - 1)
        has_alias == \E k \in DOMAIN group_by_clause :
                         group_by_clause[k].kind = "col"
        sel == FirstWord(sql, {"SELECT"}, 1)
        frm == FirstWord(sql, {"FROM"}, sel + 2)
        select_clause == SubSeq(sql, sel + 1, frm - 1)
    IN  IF g > Len(sql) \/ ~has_alias \/ sel > Len(sql) \/ frm > Len(sql)
        THEN sql
        ELSE SubSeq(sql, 1, g - 1)
               \o << Word("GROUP"), Word("BY") >>
               \o AddMissing(group_by_clause, ColumnsOf(select_clause))
               \o SubSeq(sql, stop, Len(sql))

\* sqlite_to_postgres_sql(sql)
SqliteToPostgresSql(sql) == ExpandGroupBy(QuoteLiterals(sql))

\* sqlglot.parse_one raises on a statement whose parentheses do not close
RECURSIVE Depth(_)
Depth(sql) ==
    IF sql = << >> THEN 0
    ELSE Depth(SubSeq(sql, 1, Len(sql) - 1))
           + (CASE sql[Len(sql)].kind = "lparen" -> 1
                [] sql[Len(sql)].kind = "rparen" -> -1
                [] OTHER -> 0)
Parses(sql) == Depth(sql) = 0

\* the keywords of the statements followed
Keywords ==
    { "SELECT", "FROM", "WHERE", "IN", "LIKE", "NOT", "GROUP", "BY", "ORDER",
      "AS", "JOIN", "ON" }

\* parsed.sql(dialect="postgres", normalize=True): keywords in upper case,
\* unquoted names in lower case, "!=" written "<>", quoted names and
\* strings as they are
Canonical(token) ==
    CASE token.kind = "word" ->
           IF Upper(token.text) \in Keywords THEN Word(Upper(token.text))
           ELSE Word(Lower(token.text))
      [] token.kind = "col" -> Col(Lower(token.alias), Lower(token.text))
      [] token.kind = "op" -> IF token.text = "!=" THEN Op("<>") ELSE token
      [] OTHER -> token

\* sql.lower(): every character in lower case, quoted text too
Lowered(token) ==
    [kind |-> token.kind, alias |-> Lower(token.alias), text |-> Lower(token.text)]

\* normalize_sql(sql)
NormalizeSql(sql) ==
    IF Parses(sql)
    THEN [k \in DOMAIN sql |-> Canonical(sql[k])]
    ELSE [k \in DOMAIN sql |-> Lowered(sql[k])]

\* the SQL text of the statements that run_benchmark is followed with
SqlOf(statement) ==
    IF statement = "SELECT gold"
    THEN << Word("SELECT"), Word("name"), Word("FROM"), Word("city") >>
    ELSE << Word("SELECT"), Word("name"), Word("FROM"), Word("t") >>

\* check_exact_match(generated_sql, gold_sql)
CheckExactMatch(generated_sql, gold_sql) ==
    LET gold_sql_converted == SqliteToPostgresSql(gold_sql)
        norm_generated == NormalizeSql(generated_sql)
        norm_gold == NormalizeSql(gold_sql_converted)
    IN  norm_generated = norm_gold

\* "if gold_error:" / "if gen_error:": None and "" are both false
Truthy(error) == error # None /\ error # Some("")

\* check_execution_match on the two answers of execute_sql_safely; executed
\* lists the statements that were sent to the database
CheckExecutionMatch(gold_out, gen_out) ==
    IF Truthy(gold_out.error)
    THEN [ match    |-> FALSE,
           error    |-> Some(<< "Gold SQL failed: ", gold_out.error[1] >>),
           executed |-> << "gold" >> ]
    ELSE IF Truthy(gen_out.error)
    THEN [ match    |-> FALSE,
           error    |-> gen_out.error,
           executed |-> << "gold", "generated" >> ]
    ELSE [ match    |-> gold_out.rows = gen_out.rows,
           error    |-> None,
           executed |-> << "gold", "generated" >> ]

\* record_cost that raises already when the total reaches the ceiling
RecordCostAtCeiling(total, runs, cost, rid, approach, store_ok) ==
    LET new_total == total + cost
    IN  IF new_total >= BudgetLimit
        THEN [ total_cost |-> new_total, runs |-> runs,
               raised |-> Some(BudgetErrorText), store_fault |-> FALSE ]
        ELSE IF ~store_ok
        THEN [ total_cost |-> new_total, runs |-> runs,
               raised |-> Some(StoreErrorText), store_fault |-> TRUE ]
        ELSE [ total_cost |-> new_total,
               runs |-> UpdateRunCost(runs, rid, cost, approach),
               raised |-> None, store_fault |-> FALSE ]

\* record_cost that updates the run's cost before it checks the budget
RecordCostPersistsFirst(total, runs, cost, rid, approach, store_ok) ==
    LET new_total == total + cost
    IN  IF ~store_ok
        THEN [ total_cost |-> new_total, runs |-> runs,
               raised |-> Some(StoreErrorText), store_fault |-> TRUE ]
        ELSE [ total_cost |-> new_total,
               runs |-> UpdateRunCost(runs, rid, cost, approach),
               raised |-> IF new_total > BudgetLimit
                          THEN Some(BudgetErrorText) ELSE None,
               store_fault |-> FALSE ]

\* record_cost that compares the cost of the call alone with the ceiling
RecordCostOfCallOnly(total, runs, cost, rid, approach, store_ok) ==
    LET new_total == total + cost
    IN  IF cost > BudgetLimit
        THEN [ total_cost |-> new_total, runs |-> runs,
               raised |-> Some(BudgetErrorText), store_fault |-> FALSE ]
        ELSE IF ~store_ok
        THEN [ total_cost |-> new_total, runs |-> runs,
               raised |-> Some(StoreErrorText), store_fault |-> TRUE ]
        ELSE [ total_cost |-> new_total,
               runs |-> UpdateRunCost(runs, rid, cost, approach),
               raised |-> None, store_fault |-> FALSE ]

\* record_cost(cost, rid, approach): the new in-memory total, the table
\* after it, and the exception it raises, if any
RecordCost(total, runs, cost, rid, approach, store_ok) ==
    LET new_total == total + cost
    IN  IF new_total > BudgetLimit
        THEN [ total_cost |-> new_total, runs |-> runs,
               raised |-> Some(BudgetErrorText), store_fault |-> FALSE ]
        ELSE IF ~store_ok
        THEN [ total_cost |-> new_total, runs |-> runs,
               raised |-> Some(StoreErrorText), store_fault |-> TRUE ]
        ELSE [ total_cost |-> new_total,
               runs |-> UpdateRunCost(runs, rid, cost, approach),
               raised |-> None, store_fault |-> FALSE ]

\* an except clause that leaves the match fields unset
FailureFieldsUnset(error_text) ==
    [ sql |-> None, exact_match |-> None, exec_match |-> None,
      error |-> Some(error_text), cost_usd |-> Some(0), tokens_used |-> Some(0) ]

\* the fields process_question_* returns from its except clause
FailureFields(error_text) ==
    [ sql |-> None, exact_match |-> Some(FALSE), exec_match |-> Some(FALSE),
      error |-> Some(error_text), cost_usd |-> Some(0), tokens_used |-> Some(0) ]

\* process_question_baseline / process_question_enhanced: the fields of the
\* approach, the new in-memory total and the table after it
ProcessQuestion(approach, total, runs, rid, response, store_ok) ==
    IF ~response.ok
    THEN [ fields |-> FailureFields(GeneratorErrorText), total_cost |-> total,
           runs |-> runs, store_fault |-> FALSE ]
    ELSE
    LET rc   == RecordCost(total, runs, response.cost, rid, approach, store_ok)
        exec == CheckExecutionMatch(ExecuteSqlSafely(GoldSql),
                                    ExecuteSqlSafely(response.sql))
    IN  IF rc.raised # None
        THEN [ fields |-> FailureFields(rc.raised[1]),
               total_cost |-> rc.total_cost, runs |-> rc.runs,
               store_fault |-> rc.store_fault ]
        ELSE [ fields |->
                 [ sql         |-> Some(response.sql),
                   exact_match |-> Some(CheckExactMatch(SqlOf(response.sql),
                                                        SqlOf(GoldSql))),
                   exec_match  |-> Some(exec.match),
                   error       |-> exec.error,
                   cost_usd    |-> Some(response.cost),
                   tokens_used |-> Some(response.tokens) ],
               total_cost |-> rc.total_cost, runs |-> rc.runs,
               store_fault |-> FALSE ]

\* result_data as run_benchmark builds it, every other field of
\* BenchmarkResult at its default
NewResultData(rid, question_id) ==
    [ run_id               |-> rid,
      question_id          |-> question_id,
      baseline_sql         |-> None,
      baseline_exact_match |-> None,
      baseline_exec_match  |-> None,
      baseline_error       |-> None,
      baseline_cost_usd    |-> None,
      baseline_tokens_used |-> None,
      enhanced_sql         |-> None,
      enhanced_exact_match |-> None,
      enhanced_exec_match  |-> None,
      enhanced_error       |-> None,
      enhanced_cost_usd    |-> None,
      enhanced_tokens_used |-> None ]

\* result_data.update(baseline_data)
WithBaseline(data, f) ==
    [data EXCEPT !.baseline_sql = f.sql,
                 !.baseline_exact_match = f.exact_match,
                 !.baseline_exec_match = f.exec_match,
                 !.baseline_error = f.error,
                 !.baseline_cost_usd = f.cost_usd,
                 !.baseline_tokens_used = f.tokens_used]

\* a result_data that is begun anew for the enhanced approach
WithEnhancedAlone(data, f) ==
    [NewResultData(data.run_id, data.question_id)
        EXCEPT !.enhanced_sql = f.sql,
               !.enhanced_exact_match = f.exact_match,
               !.enhanced_exec_match = f.exec_match,
               !.enhanced_error = f.error,
               !.enhanced_cost_usd = f.cost_usd,
               !.enhanced_tokens_used = f.tokens_used]

\* result_data.update(enhanced_data)
WithEnhanced(data, f) ==
    [data EXCEPT !.enhanced_sql = f.sql,
                 !.enhanced_exact_match = f.exact_match,
                 !.enhanced_exec_match = f.exec_match,
                 !.enhanced_error = f.error,
                 !.enhanced_cost_usd = f.cost_usd,
                 !.enhanced_tokens_used = f.tokens_used]

(***************************************************************************)
(* run_benchmark, one action per store call or per approach of a question. *)
(***************************************************************************)
\* the background tasks of two start_benchmark requests
Tasks == {1, 2}
\* a task that has not begun
NoTask ==
    [ pc |-> "start", run_id |-> 0, completed |-> 0, failed |-> 0,
      costs |-> << >>, raised |-> << >>, pending |-> None, current |-> None ]
\* no request has come in
NoTasks ==
    /\ tasks = [t \in Tasks |-> NoTask]
    /\ runner_total = [t \in Tasks |-> 0]

\* no store operation is being followed
NoStoreCall ==
    [ op |-> "", pc |-> "idle", request |-> 0, attempts |-> << >>,
      error |-> None ]
\* check_exact_match has not been called
NoSqlCall ==
    [ pc |-> "idle", generated_sql |-> << >>, gold_sql |-> << >>,
      gold_sql_converted |-> << >>, norm_generated |-> << >>,
      norm_gold |-> << >>, result |-> None ]
\* load_spider_questions has not been called
NoLoadCall ==
    [ pc |-> "idle", data |-> << >>, databases |-> None, limit |-> None,
      i |-> 0, questions |-> << >>, question_count |-> None ]
\* nothing but run_benchmark and check_execution_match is going on
SideIdle ==
    /\ NoTasks
    /\ store_call = NoStoreCall
    /\ sql_call = NoSqlCall
    /\ load_call = NoLoadCall

\* the logical clock: the number of questions whose iteration has begun
Now == IF pc \in {"progress", "baseline", "enhanced", "save"} THEN i + 1 ELSE i

\* run_benchmark has been called with one of configs, on a new store
InitRun(configs) ==
    /\ config \in configs
    /\ pc = "start"
    /\ i = 0
    /\ completed = 0
    /\ failed = 0
    /\ total_cost = 0
    /\ result_data = None
    /\ exc = None
    /\ outcome = "none"
    /\ run_id = 0
    /\ store_faults = 0
    /\ benchmark_runs = << >>
    /\ benchmark_results = << >>

Init ==
    /\ InitRun(Configs)
    /\ calls = [c \in Callers |-> NoCall]
    /\ checked_out = 0
    /\ SideIdle

\* a store call inside the try block raised: on to the except clauses
ToExcept(error_text) ==
    /\ pc' = "except_status"
    /\ exc' = Some(error_text)
    /\ store_faults' = store_faults + 1

\* an exception that is logged and not raised again
RaiseSwallowed(error_text) ==
    /\ pc' = "done"
    /\ exc' = Some(error_text)
    /\ outcome' = "returned"

\* an exception that is thrown back into the except clause it came from
RaiseToHandler(error_text) ==
    /\ pc' = "except_status"
    /\ exc' = Some(error_text)
    /\ outcome' = "raised"

\* an exception leaves run_benchmark
Raise(error_text) ==
    /\ pc' = "done"
    /\ exc' = Some(error_text)
    /\ outcome' = "raised"

\* lines 543-558: load the questions, create the run record
CreateRun ==
    /\ pc = "start"
    /\ \E store_ok \in StoreOutcomes :
         IF store_ok
         THEN /\ benchmark_runs' = Append(benchmark_runs, CreateRunRow(config))
              /\ run_id' = Len(benchmark_runs) + 1
              /\ pc' = "mark_running"
              /\ UNCHANGED << exc, outcome, store_faults >>
         ELSE /\ Raise(StoreErrorText)
              /\ store_faults' = store_faults + 1
              /\ UNCHANGED << benchmark_runs, run_id >>
    /\ UNCHANGED << config, i, completed, failed, total_cost, result_data,
                    benchmark_results >>
    /\ UNCHANGED << execVars, sideVars >>

\* lines 560-567: mark as running, reset the cost counter and the counters
MarkRunning ==
    /\ pc = "mark_running"
    /\ \E store_ok \in StoreOutcomes :
         IF store_ok
         THEN /\ benchmark_runs' =
                    UpdateRunStatus(benchmark_runs, run_id, "running", None, None, Now)
              /\ total_cost' = 0
              /\ completed' = 0
              /\ failed' = 0
              /\ pc' = "loop"
              /\ UNCHANGED << exc, outcome, store_faults >>
         ELSE /\ Raise(StoreErrorText)
              /\ store_faults' = store_faults + 1
              /\ UNCHANGED << benchmark_runs, total_cost, completed, failed >>
    /\ UNCHANGED << config, i, result_data, run_id, benchmark_results >>
    /\ UNCHANGED << execVars, sideVars >>

\* a poll that is due one question late
PollDueLate(q) == q % CancelCheckInterval = 1

\* line 572: "if i % 10 == 0"
PollDue(q) == q % CancelCheckInterval = 0

\* lines 570-577: the cancellation poll of every 10th question
PollCancelled ==
    /\ pc = "loop"
    /\ i < config.question_count
    /\ PollDue(i)
    /\ \E read_ok \in StoreOutcomesAt(i) :
         IF ~read_ok
         THEN /\ ToExcept(StoreErrorText)
              /\ UNCHANGED << benchmark_runs, outcome >>
         ELSE IF run_id \in DOMAIN benchmark_runs
                 /\ benchmark_runs[run_id].status = "cancelled"
         THEN \E write_ok \in StoreOutcomesAt(i) :
                IF write_ok
                THEN /\ benchmark_runs' =
                           UpdateRunProgress(benchmark_runs, run_id,
                                             completed, failed, None)
                     /\ pc' = "done"
                     /\ outcome' = "returned"
                     /\ UNCHANGED << exc, store_faults >>
                ELSE /\ ToExcept(StoreErrorText)
                     /\ UNCHANGED << benchmark_runs, outcome >>
         ELSE /\ pc' = "progress"
              /\ UNCHANGED << benchmark_runs, outcome, exc, store_faults >>
    /\ UNCHANGED << config, i, completed, failed, total_cost, result_data,
                    run_id, benchmark_results >>
    /\ UNCHANGED << execVars, sideVars >>

\* lines 579-596: update progress, build the result object
UpdateProgress ==
    /\ \/ pc = "progress"
       \/ /\ pc = "loop"
          /\ i < config.question_count
          /\ ~PollDue(i)
    /\ \E store_ok \in StoreOutcomesAt(i) :
         IF store_ok
         THEN /\ benchmark_runs' =
                    UpdateRunProgress(benchmark_runs, run_id,
                                      completed, failed, Some(i))
              /\ result_data' = Some(NewResultData(run_id, i))
              /\ pc' = IF config.run_type \in {"baseline", "both"}
                       THEN "baseline" ELSE "enhanced"
              /\ UNCHANGED << exc, store_faults >>
         ELSE /\ ToExcept(StoreErrorText)
              /\ UNCHANGED << benchmark_runs, result_data >>
    /\ UNCHANGED << config, i, completed, failed, total_cost, outcome,
                    run_id, benchmark_results >>
    /\ UNCHANGED << execVars, sideVars >>

\* lines 600-602 with process_question_baseline (397-459)
ProcessBaseline ==
    /\ pc = "baseline"
    /\ \E response \in GeneratorResponsesAt(i), store_ok \in StoreOutcomesAt(i) :
         LET r == ProcessQuestion("baseline", total_cost, benchmark_runs, run_id,
                                  response, store_ok)
         IN  /\ result_data' = Some(WithBaseline(result_data[1], r.fields))
             /\ total_cost' = r.total_cost
             /\ benchmark_runs' = r.runs
             /\ store_faults' = store_faults + (IF r.store_fault THEN 1 ELSE 0)
    /\ pc' = IF config.run_type \in {"enhanced", "both"} THEN "enhanced" ELSE "save"
    /\ UNCHANGED << config, i, completed, failed, exc, outcome, run_id,
                    benchmark_results >>
    /\ UNCHANGED << execVars, sideVars >>

\* lines 604-606 with process_question_enhanced (461-528)
ProcessEnhanced ==
    /\ pc = "enhanced"
    /\ \E response \in GeneratorResponsesAt(i), store_ok \in StoreOutcomesAt(i) :
         LET r == ProcessQuestion("enhanced", total_cost, benchmark_runs, run_id,
                                  response, store_ok)
         IN  /\ result_data' = Some(WithEnhanced(result_data[1], r.fields))
             /\ total_cost' = r.total_cost
             /\ benchmark_runs' = r.runs
             /\ store_faults' = store_faults + (IF r.store_fault THEN 1 ELSE 0)
    /\ pc' = "save"
    /\ UNCHANGED << config, i, completed, failed, exc, outcome, run_id,
                    benchmark_results >>
    /\ UNCHANGED << execVars, sideVars >>

\* an except clause of the question that counts the question as completed
QuestionFailedAsCompleted ==
    /\ completed' = completed + 1
    /\ UNCHANGED failed

\* an except clause of the question that counts nothing
QuestionFailedUncounted == UNCHANGED << completed, failed >>

\* lines 614-617: "except Exception as e: failed += 1"
QuestionFailed ==
    /\ failed' = failed + 1
    /\ UNCHANGED completed

\* lines 608-617: save the result and count the question
SaveResult ==
    /\ pc = "save"
    /\ \E store_ok \in StoreOutcomesAt(i) :
         IF store_ok
         THEN /\ benchmark_results' = Append(benchmark_results, result_data[1])
              /\ completed' = completed + 1
              /\ UNCHANGED << failed, store_faults >>
         ELSE /\ QuestionFailed
              /\ store_faults' = store_faults + 1
              /\ UNCHANGED benchmark_results
    /\ i' = i + 1
    /\ pc' = "loop"
    /\ result_data' = None
    /\ UNCHANGED << config, total_cost, exc, outcome, run_id, benchmark_runs >>
    /\ UNCHANGED << execVars, sideVars >>

\* lines 619-620: the loop is exhausted, calculate the final metrics
CalculateMetrics ==
    /\ pc = "loop"
    /\ i = config.question_count
    /\ \E store_ok \in StoreOutcomes :
         IF store_ok
         THEN /\ benchmark_runs' =
                    CalculateAndSaveMetrics(benchmark_runs, benchmark_results, run_id)
              /\ pc' = "mark_completed"
              /\ UNCHANGED << exc, store_faults >>
         ELSE /\ ToExcept(StoreErrorText)
              /\ UNCHANGED benchmark_runs
    /\ UNCHANGED << config, i, completed, failed, total_cost, result_data,
                    outcome, run_id, benchmark_results >>
    /\ UNCHANGED << execVars, sideVars >>

\* lines 622-623: mark as completed
MarkCompleted ==
    /\ pc = "mark_completed"
    /\ \E store_ok \in StoreOutcomes :
         IF store_ok
         THEN /\ benchmark_runs' =
                    UpdateRunStatus(benchmark_runs, run_id, "completed",
                                    Some("completed"), None, Now)
              /\ pc' = "final_progress"
              /\ UNCHANGED << exc, store_faults >>
         ELSE /\ ToExcept(StoreErrorText)
              /\ UNCHANGED benchmark_runs
    /\ UNCHANGED << config, i, completed, failed, total_cost, result_data,
                    outcome, run_id, benchmark_results >>
    /\ UNCHANGED << execVars, sideVars >>

\* lines 624-626: the last progress write, return run_id
FinalProgress ==
    /\ pc = "final_progress"
    /\ \E store_ok \in StoreOutcomes :
         IF store_ok
         THEN /\ benchmark_runs' =
                    UpdateRunProgress(benchmark_runs, run_id, completed, failed, None)
              /\ pc' = "done"
              /\ outcome' = "returned"
              /\ UNCHANGED << exc, store_faults >>
         ELSE /\ ToExcept(StoreErrorText)
              /\ UNCHANGED << benchmark_runs, outcome >>
    /\ UNCHANGED << config, i, completed, failed, total_cost, result_data,
                    run_id, benchmark_results >>
    /\ UNCHANGED << execVars, sideVars >>

\* lines 628-630 and 634-636: the except clauses' status write
ExceptStatus ==
    /\ pc = "except_status"
    /\ \E store_ok \in StoreOutcomes :
         IF store_ok
         THEN /\ benchmark_runs' =
                    UpdateRunStatus(benchmark_runs, run_id, "failed",
                        IF exc = Some(BudgetErrorText)
                        THEN Some("budget_exceeded") ELSE Some("fatal_error"),
                        exc, Now)
              /\ pc' = "except_progress"
              /\ UNCHANGED << exc, outcome, store_faults >>
         ELSE /\ Raise(StoreErrorText)
              /\ store_faults' = store_faults + 1
              /\ UNCHANGED benchmark_runs
    /\ UNCHANGED << config, i, completed, failed, total_cost, result_data,
                    run_id, benchmark_results >>
    /\ UNCHANGED << execVars, sideVars >>

\* lines 631-632 and 637-638: the except clauses' progress write, and raise
ExceptProgress ==
    /\ pc = "except_progress"
    /\ \E store_ok \in StoreOutcomes :
         IF store_ok
         THEN /\ benchmark_runs' =
                    UpdateRunProgress(benchmark_runs, run_id, completed, failed, None)
              /\ Raise(exc[1])
              /\ UNCHANGED store_faults
         ELSE /\ Raise(StoreErrorText)
              /\ store_faults' = store_faults + 1
              /\ UNCHANGED benchmark_runs
    /\ UNCHANGED << config, i, completed, failed, total_cost, result_data,
                    run_id, benchmark_results >>
    /\ UNCHANGED << execVars, sideVars >>

(***************************************************************************)
(* routers/benchmark.py                                                    *)
(***************************************************************************)
\* cancel_run(run_id), for the id of a run that has been created
CancelRun ==
    /\ run_id \in DOMAIN benchmark_runs
    /\ benchmark_runs' =
           UpdateRunStatus(benchmark_runs, run_id, "cancelled",
                           Some("cancelled_by_user"), None, Now)
    /\ UNCHANGED << config, pc, i, completed, failed, total_cost, result_data,
                    exc, outcome, run_id, store_faults, benchmark_results >>
    /\ UNCHANGED << execVars, sideVars >>

Next ==
    \/ CreateRun
    \/ MarkRunning
    \/ PollCancelled
    \/ UpdateProgress
    \/ ProcessBaseline
    \/ ProcessEnhanced
    \/ SaveResult
    \/ CalculateMetrics
    \/ MarkCompleted
    \/ FinalProgress
    \/ ExceptStatus
    \/ ExceptProgress
    \/ CancelRun

Spec == Init /\ [][Next]_vars

\* the steps of run_benchmark: all of Next but the cancel request
RunBenchmark ==
    \/ CreateRun
    \/ MarkRunning
    \/ PollCancelled
    \/ UpdateProgress
    \/ ProcessBaseline
    \/ ProcessEnhanced
    \/ SaveResult
    \/ CalculateMetrics
    \/ MarkCompleted
    \/ FinalProgress
    \/ ExceptStatus
    \/ ExceptProgress

\* the configs of the runs that are followed to their end: every run_type
\* over no question and over one, and a baseline run over two
FairConfigs ==
    [run_type : RunTypes, question_count : 0 .. 1]
        \cup [run_type : {"baseline"}, question_count : {2}]

InitFair ==
    /\ InitRun(FairConfigs)
    /\ calls = [c \in Callers |-> NoCall]
    /\ checked_out = 0
    /\ SideIdle

\* every call run_benchmark makes returns or raises: run_benchmark, a
\* sequential thread, always takes its next step; cancel requests come or not
SpecFair == InitFair /\ [][Next]_vars /\ WF_vars(RunBenchmark)

(***************************************************************************)
(* check_execution_match and execute_sql_safely, one step at a time.       *)
(***************************************************************************)
\* an exception leaves an attempt of execute_sql_safely: the retry decorator
\* (lines 270-274) calls again on OperationalError while attempts are left,
\* raises RetryError when none is; anything else leaves
\* check_execution_match as it is
AttemptRaised(call, operational, error_text) ==
    IF operational /\ call.attempt < MaxAttempts
    THEN [call EXCEPT !.pc = "getconn", !.attempt = @ + 1,
                      !.conn = "none", !.pending = None]
    ELSE [call EXCEPT !.pc = "done", !.conn = "none", !.pending = None,
                      !.result = Some([ kind  |-> "raised",
                                        match |-> FALSE,
                                        error |-> Some(IF operational
                                                       THEN RetryErrorText
                                                       ELSE error_text) ])]

\* the call after its current attempt has met something: "rows", "error"
\* (the database rejected the statement), "operational" (the connection
\* failed at getconn, at the statement or at rollback), "pool" (PoolError)
Met(call, what) == [call EXCEPT !.attempts = Append(@, what)]

\* the rows the database holds for a statement that runs
RowsOf(query) == IF query = "SELECT other" THEN OtherRows ELSE GoldRows

\* cur.fetchall(): the rows in any order the database may return them
FetchAll(query) ==
    LET rows == RowsOf(query)
        n == Len(rows)
    IN  { [k \in 1 .. n |-> rows[f[k]]] :
            f \in { g \in [1 .. n -> 1 .. n] :
                      \A a, b \in 1 .. n : a # b => g[a] # g[b] } }

\* lines 340-344: check_execution_match is called and calls
\* execute_sql_safely on the gold statement
CallCheckExecutionMatch(c) ==
    /\ calls[c].pc = "idle"
    /\ \E gold \in GoldStatements, generated \in Statements :
         calls' = [calls EXCEPT ![c] =
                     [NoCall EXCEPT !.pc = "getconn", !.gold_sql = gold,
                                    !.generated_sql = generated,
                                    !.which = "gold", !.attempt = 1]]
    /\ UNCHANGED << checked_out, runVars, sideVars >>

\* line 292: conn = self.db_pool.getconn()
GetConn(c) ==
    /\ calls[c].pc = "getconn"
    /\ IF checked_out >= MaxConn
       THEN /\ calls' = [calls EXCEPT ![c] =
                           AttemptRaised(Met(@, "pool"),
                                         FALSE, PoolExhaustedText)]
            /\ UNCHANGED checked_out
       ELSE \/ /\ calls' = [calls EXCEPT ![c].pc = "query", ![c].conn = "open",
                                       ![c].unreturned = @ + 1]
               /\ checked_out' = checked_out + 1
            \/ /\ calls' = [calls EXCEPT ![c] =
                              AttemptRaised(Met(@, "operational"),
                                            TRUE, ConnectionLostText)]
               /\ UNCHANGED checked_out
    /\ UNCHANGED << runVars, sideVars >>

\* lines 293-314: the try block and its except clause
RunQuery(c) ==
    /\ calls[c].pc = "query"
    /\ LET call == calls[c]
           query == IF call.which = "gold" THEN call.gold_sql
                    ELSE call.generated_sql
       IN  \E answer \in DbOutcomes(query) :
           \E results \in IF answer = "rows" THEN FetchAll(query) ELSE {<< >>} :
             calls' = [calls EXCEPT ![c] =
                [call EXCEPT
                   !.pc = "finally",
                   !.executed = Append(@, call.which),
                   !.conn = IF answer = "lost" THEN "closed" ELSE "open",
                   !.gold_raised = @ \/ (call.which = "gold" /\ answer # "rows"),
                   !.pending =
                       Some(CASE answer = "rows"  -> ExecRows(Sorted(results))
                              [] answer = "error" -> ExecError(SqlErrorText)
                              [] answer = "lost"  -> ExecError(ConnectionLostText))]]
    /\ UNCHANGED << checked_out, runVars, sideVars >>

\* lines 316-319: conn.rollback(); self.db_pool.putconn(conn).  rollback
\* raises InterfaceError on a closed connection and OperationalError when
\* the connection breaks under it; putconn is then not reached
Finally(c) ==
    /\ calls[c].pc = "finally"
    /\ IF calls[c].conn = "closed"
       THEN /\ calls' = [calls EXCEPT ![c] =
                           AttemptRaised(Met(@, "operational"),
                                         FALSE, AlreadyClosedText)]
            /\ UNCHANGED checked_out
       ELSE \/ /\ calls' = [calls EXCEPT ![c] =
                              [Met(@, IF @.pending[1].error = None
                                      THEN "rows" ELSE "error")
                                  EXCEPT !.pc = "returned", !.conn = "none",
                                         !.unreturned = @ - 1]]
               /\ checked_out' = checked_out - 1
            \/ /\ calls' = [calls EXCEPT ![c] =
                              AttemptRaised(Met(@, "operational"),
                                            TRUE, ConnectionLostText)]
               /\ UNCHANGED checked_out
    /\ UNCHANGED << runVars, sideVars >>

\* lines 344-355: execute_sql_safely has returned to check_execution_match
Returned(c) ==
    /\ calls[c].pc = "returned"
    /\ LET call == calls[c]
           out == call.pending[1]
       IN  IF call.which = "gold" /\ ~Truthy(out.error)
           THEN calls' = [calls EXCEPT ![c] =
                            [call EXCEPT !.pc = "getconn", !.which = "generated",
                                         !.attempt = 1, !.attempts = << >>,
                                         !.gold_out = Some(out),
                                         !.pending = None]]
           ELSE LET gold_out == IF call.which = "gold" THEN out
                                ELSE call.gold_out[1]
                    answer == CheckExecutionMatch(gold_out, out)
                IN  calls' = [calls EXCEPT ![c] =
                                [call EXCEPT !.pc = "done",
                                             !.gold_out = Some(gold_out),
                                             !.gen_out =
                                                 IF call.which = "generated"
                                                 THEN Some(out) ELSE None,
                                             !.pending = None,
                                             !.result =
                                                 Some([ kind  |-> "returned",
                                                        match |-> answer.match,
                                                        error |-> answer.error ])]]
    /\ UNCHANGED << checked_out, runVars, sideVars >>

\* the pool when the calls begin: nothing checked out, or all but one or all
\* connections still checked out by earlier calls that never returned them
InitExec ==
    /\ InitRun({[run_type |-> "baseline", question_count |-> 0]})
    /\ calls = [c \in Callers |-> NoCall]
    /\ checked_out \in {0, MaxConn - 1, MaxConn}
    /\ SideIdle

NextExec ==
    \E c \in Callers :
        \/ CallCheckExecutionMatch(c)
        \/ GetConn(c)
        \/ RunQuery(c)
        \/ Finally(c)
        \/ Returned(c)

SpecExec == InitExec /\ [][NextExec]_vars

(***************************************************************************)
(* Two runs at once: each start_benchmark request builds a runner and      *)
(* hands its run_benchmark to a background task; the tasks share the store. *)
(* A step is one store request or one change of the runner's total, so     *)
(* update_run_cost is two steps, its select and its update.                *)
(***************************************************************************)
\* get_runner_instance() that hands every request the same runner
GetRunnerSingleton(t) == 1

\* get_runner_instance(): the runner of request t, a new BenchmarkRunner
GetRunnerInstance(t) == t

\* the config of request t: one approach, every question one record_cost
TaskConfig(t) ==
    [ run_type |-> IF t = 1 THEN "baseline" ELSE "enhanced",
      question_count |-> MaxTaskCalls ]

\* update_run_cost, lines 111-121: the updates computed from the row read
CostUpdates(current, additional_cost, approach) ==
    LET u1 == [total_cost_usd |-> current.total_cost_usd + additional_cost]
    IN  IF approach = "baseline"
        THEN u1 @@ [baseline_cost_usd |->
                      Some(OrZero(current.baseline_cost_usd) + additional_cost)]
        ELSE IF approach = "enhanced"
        THEN u1 @@ [enhanced_cost_usd |->
                      Some(OrZero(current.enhanced_cost_usd) + additional_cost)]
        ELSE u1

\* the other variables of run_benchmark stay as they are
OneRunIdle ==
    UNCHANGED << config, pc, i, completed, failed, total_cost, result_data,
                 exc, outcome, run_id, store_faults, benchmark_results,
                 execVars, storeVars, sqlVars, loadVars >>

\* lines 549-558: create the run record
TaskCreateRun(t) ==
    /\ tasks[t].pc = "start"
    /\ benchmark_runs' = Append(benchmark_runs, CreateRunRow(TaskConfig(t)))
    /\ tasks' = [tasks EXCEPT ![t].run_id = Len(benchmark_runs) + 1,
                              ![t].pc = "mark_running"]
    /\ UNCHANGED runner_total
    /\ OneRunIdle

\* lines 560-567: mark as running, reset the runner's cost counter
TaskMarkRunning(t) ==
    /\ tasks[t].pc = "mark_running"
    /\ benchmark_runs' =
          UpdateRunStatus(benchmark_runs, tasks[t].run_id, "running", None, None, 0)
    /\ runner_total' = [runner_total EXCEPT ![GetRunnerInstance(t)] = 0]
    /\ tasks' = [tasks EXCEPT ![t].completed = 0, ![t].failed = 0,
                              ![t].pc = "loop"]
    /\ OneRunIdle

\* lines 579-585: the progress write that begins a question
TaskUpdateProgress(t) ==
    /\ tasks[t].pc = "loop"
    /\ Len(tasks[t].costs) < MaxTaskCalls
    /\ benchmark_runs' =
          UpdateRunProgress(benchmark_runs, tasks[t].run_id, tasks[t].completed,
                            tasks[t].failed, Some(Len(tasks[t].costs)))
    /\ tasks' = [tasks EXCEPT ![t].pc = "record"]
    /\ UNCHANGED runner_total
    /\ OneRunIdle

\* record_cost, lines 387-392: add to the runner's total, check the budget;
\* a refused cost fails the question (line 615)
TaskRecordCost(t) ==
    /\ tasks[t].pc = "record"
    /\ \E cost \in Costs :
         LET new_total == runner_total[GetRunnerInstance(t)] + cost
             over == new_total > BudgetLimit
         IN  /\ runner_total' =
                   [runner_total EXCEPT ![GetRunnerInstance(t)] = new_total]
             /\ tasks' = [tasks EXCEPT
                            ![t].costs = Append(@, cost),
                            ![t].raised = Append(@, over),
                            ![t].pending = IF over THEN None ELSE Some(cost),
                            ![t].failed = IF over THEN @ + 1 ELSE @,
                            ![t].pc = IF over THEN "loop" ELSE "cost_read"]
    /\ UNCHANGED benchmark_runs
    /\ OneRunIdle

\* update_run_cost, lines 100-109: select the cost columns of the run
TaskCostRead(t) ==
    /\ tasks[t].pc = "cost_read"
    /\ tasks' = [tasks EXCEPT
                   ![t].current = IF tasks[t].run_id \in DOMAIN benchmark_runs
                                  THEN Some(benchmark_runs[tasks[t].run_id])
                                  ELSE None,
                   ![t].pc = "cost_write"]
    /\ UNCHANGED << benchmark_runs, runner_total >>
    /\ OneRunIdle

\* update_run_cost, lines 111-123: update the cost columns of the run; the
\* question is then counted as completed (line 613)
TaskCostWrite(t) ==
    /\ tasks[t].pc = "cost_write"
    /\ benchmark_runs' =
          IF tasks[t].current = None THEN benchmark_runs
          ELSE UpdateRow(benchmark_runs, tasks[t].run_id,
                         CostUpdates(tasks[t].current[1], tasks[t].pending[1],
                                     TaskConfig(t).run_type))
    /\ tasks' = [tasks EXCEPT ![t].current = None, ![t].pending = None,
                              ![t].completed = @ + 1,
                              ![t].pc = "loop"]
    /\ UNCHANGED runner_total
    /\ OneRunIdle

\* lines 622-623: the loop is exhausted, mark as completed
TaskMarkCompleted(t) ==
    /\ tasks[t].pc = "loop"
    /\ Len(tasks[t].costs) = MaxTaskCalls
    /\ benchmark_runs' =
          UpdateRunStatus(benchmark_runs, tasks[t].run_id, "completed",
                          Some("completed"), None, 0)
    /\ tasks' = [tasks EXCEPT ![t].pc = "final_progress"]
    /\ UNCHANGED runner_total
    /\ OneRunIdle

\* lines 624-626: the last progress write
TaskFinalProgress(t) ==
    /\ tasks[t].pc = "final_progress"
    /\ benchmark_runs' =
          UpdateRunProgress(benchmark_runs, tasks[t].run_id, tasks[t].completed,
                            tasks[t].failed, None)
    /\ tasks' = [tasks EXCEPT ![t].pc = "done"]
    /\ UNCHANGED runner_total
    /\ OneRunIdle

InitRuns ==
    /\ InitRun({[run_type |-> "baseline", question_count |-> 0]})
    /\ calls = [c \in Callers |-> NoCall]
    /\ checked_out = 0
    /\ SideIdle

NextRuns ==
    \E t \in Tasks :
        \/ TaskCreateRun(t)
        \/ TaskMarkRunning(t)
        \/ TaskUpdateProgress(t)
        \/ TaskRecordCost(t)
        \/ TaskCostRead(t)
        \/ TaskCostWrite(t)
        \/ TaskMarkCompleted(t)
        \/ TaskFinalProgress(t)

SpecRuns == InitRuns /\ [][NextRuns]_vars

(***************************************************************************)
(* One store operation, request by request: the methods of BenchmarkStore  *)
(* and the convenience methods of its base class SupabaseClient.           *)
(***************************************************************************)
\* the methods of BenchmarkStore that run_benchmark and cancel_run call
StoreOperations ==
    { "create_run", "update_run_status", "update_run_progress",
      "update_run_cost", "save_result", "get_run_status",
      "calculate_and_save_metrics" }
\* SupabaseClient.insert / update / select (supabase_client.py:60-79)
ClientOperations == { "insert", "update", "select" }

\* the requests an operation sends: update_run_cost and
\* calculate_and_save_metrics select, then update
Requests(op) ==
    IF op \in {"update_run_cost", "calculate_and_save_metrics"} THEN 2 ELSE 1

\* retry_if_exception_type((...)) (supabase_client.py:37-42)
TransientErrors ==
    { "RemoteProtocolError", "ConnectError", "ReadTimeout", "ReadError" }
\* any other exception of a request
OtherErrors == { "APIError" }

\* the operation sends its requests through _execute_with_retry: the
\* convenience methods do, the methods of BenchmarkStore call
\* self.client.table(...)...execute() themselves
ThroughRetry(op) == op \in ClientOperations

\* a caller calls an operation
CallStore ==
    /\ store_call.pc = "idle"
    /\ \E op \in StoreOperations \cup ClientOperations :
         store_call' = [ op |-> op, pc |-> "execute", request |-> 1,
                         attempts |-> << >>, error |-> None ]
    /\ UNCHANGED << runVars, execVars, taskVars, sqlVars, loadVars >>

\* what follows an attempt of a request that ended as answer says
AfterAttempt(call, answer, retried) ==
    LET tried == Append(call.attempts, answer)
    IN  IF answer = "ok"
        THEN IF call.request < Requests(call.op)
             THEN [call EXCEPT !.request = @ + 1, !.attempts = << >>]
             ELSE [call EXCEPT !.attempts = tried, !.pc = "returned"]
        ELSE IF retried /\ answer \in TransientErrors
        THEN IF Len(tried) < MaxStoreAttempts
             THEN [call EXCEPT !.attempts = tried]
             ELSE [call EXCEPT !.attempts = tried, !.pc = "raised",
                               !.error = Some("RetryError")]
        ELSE [call EXCEPT !.attempts = tried, !.pc = "raised",
                          !.error = Some(answer)]

\* "self.client.table(...)...execute()" in a method of BenchmarkStore
Execute ==
    /\ store_call.pc = "execute"
    /\ ~ThroughRetry(store_call.op)
    /\ \E answer \in {"ok"} \cup TransientErrors \cup OtherErrors :
         store_call' = AfterAttempt(store_call, answer, FALSE)
    /\ UNCHANGED << runVars, execVars, taskVars, sqlVars, loadVars >>

\* _execute_with_retry(operation) (supabase_client.py:34-56)
ExecuteWithRetry ==
    /\ store_call.pc = "execute"
    /\ ThroughRetry(store_call.op)
    /\ \E answer \in {"ok"} \cup TransientErrors \cup OtherErrors :
         store_call' = AfterAttempt(store_call, answer, TRUE)
    /\ UNCHANGED << runVars, execVars, taskVars, sqlVars, loadVars >>

InitStore ==
    /\ InitRun({[run_type |-> "baseline", question_count |-> 0]})
    /\ calls = [c \in Callers |-> NoCall]
    /\ checked_out = 0
    /\ SideIdle

NextStore ==
    \/ CallStore
    \/ Execute
    \/ ExecuteWithRetry

SpecStore == InitStore /\ [][NextStore]_vars

(***************************************************************************)
(* check_exact_match, line by line, on pairs of statements.                *)
(***************************************************************************)
\* what stands where a value is compared: a text in double quotes, the
\* same in single quotes, a name
Literals == { Dq("Paris"), Sq("Paris"), Word("Name") }
\* the comparisons of the patterns of lines 167-177
Comparisons ==
    { << Op(o) >> : o \in {"=", "!=", "<>", ">", "<", ">=", "<="} }
        \cup { << Word("LIKE") >>, << Word("like") >>,
               << Word("NOT"), Word("LIKE") >> }
SelectWhere ==
    << Word("SELECT"), Word("name"), Word("FROM"), Word("city"),
       Word("WHERE"), Word("name") >>
SelectJoin ==
    << Word("SELECT"), Col("T1", "a"), Comma, Col("T2", "b"), Word("FROM"),
       Word("t"), Word("AS"), Word("T1"), Word("JOIN"), Word("u"), Word("AS"),
       Word("T2") >>
\* the statements check_exact_match is called with: gold statements of the
\* Spider set in SQLite's dialect and statements a generator returns
SqlStatements ==
    { << Word(sel), lit >> : sel \in {"SELECT", "select"}, lit \in Literals }
      \cup { << Word("SELECT"), a, Comma, b >> : a \in Literals, b \in Literals }
      \cup { SelectWhere \o cmp \o << lit >> :
                cmp \in Comparisons, lit \in Literals }
      \cup { SelectWhere \o << Word("IN"), LParen, a, Comma, b, RParen >> :
                a \in Literals, b \in Literals }
      \cup { SelectJoin \o group_by \o << key >> \o order_by :
                group_by \in { << Word("GROUP"), Word("BY") >>,
                               << Word("group"), Word("by") >> },
                key \in { Col("T1", "a"), Word("name") },
                order_by \in { << >>,
                               << Word("ORDER"), Word("BY"), Col("T1", "a") >> } }
      \cup { << Word("SELECT"), LParen, Dq("Paris") >> }

\* check_exact_match(generated_sql, gold_sql) is called
CallCheckExactMatch ==
    /\ sql_call.pc = "idle"
    /\ \E generated_sql \in SqlStatements, gold_sql \in SqlStatements :
         sql_call' = [NoSqlCall EXCEPT !.pc = "convert",
                                       !.generated_sql = generated_sql,
                                       !.gold_sql = gold_sql]
    /\ UNCHANGED << runVars, execVars, taskVars, storeVars, loadVars >>

\* line 264: gold_sql_converted = self.sqlite_to_postgres_sql(gold_sql)
ConvertGold ==
    /\ sql_call.pc = "convert"
    /\ sql_call' = [sql_call EXCEPT
                      !.gold_sql_converted = SqliteToPostgresSql(sql_call.gold_sql),
                      !.pc = "normalize"]
    /\ UNCHANGED << runVars, execVars, taskVars, storeVars, loadVars >>

\* lines 266-267: normalize both sides
NormalizeBoth ==
    /\ sql_call.pc = "normalize"
    /\ sql_call' = [sql_call EXCEPT
                      !.norm_generated = NormalizeSql(sql_call.generated_sql),
                      !.norm_gold = NormalizeSql(sql_call.gold_sql_converted),
                      !.pc = "compare"]
    /\ UNCHANGED << runVars, execVars, taskVars, storeVars, loadVars >>

\* line 268: return norm_generated == norm_gold
Compare ==
    /\ sql_call.pc = "compare"
    /\ sql_call' = [sql_call EXCEPT
                      !.result = Some(sql_call.norm_generated = sql_call.norm_gold),
                      !.pc = "done"]
    /\ UNCHANGED << runVars, execVars, taskVars, storeVars, loadVars >>

InitSql ==
    /\ InitRun({[run_type |-> "baseline", question_count |-> 0]})
    /\ calls = [c \in Callers |-> NoCall]
    /\ checked_out = 0
    /\ SideIdle

NextSql ==
    \/ CallCheckExactMatch
    \/ ConvertGold
    \/ NormalizeBoth
    \/ Compare

SpecSql == InitSql /\ [][NextSql]_vars

(***************************************************************************)
(* load_spider_questions, item by item, and the question_count that        *)
(* run_benchmark gives the Run.                                            *)
(***************************************************************************)
\* item.get('db_id') of the items of dev.json
DbIds == { "concert_singer", "pets_1" }
\* dev.json: the db_id of every item, in source order
RECURSIVE SourcesOfLength(_)
SourcesOfLength(n) ==
    IF n = 0 THEN { << >> }
    ELSE { Append(data, d) : data \in SourcesOfLength(n - 1), d \in DbIds }
Sources == UNION { SourcesOfLength(n) : n \in 0 .. MaxSource }
\* config.databases: None or a list, the empty one too
DatabaseFilters == { None } \cup { Some(dbs) : dbs \in SUBSET DbIds }
\* config.question_limit: None or an int that is not negative
Limits == { None } \cup { Some(n) : n \in 0 .. MaxSource + 1 }

\* SpiderQuestion(question_id=f"dev_{i:04d}", database=db_id, ...)
SpiderQuestion(index, db_id) == [ question_id |-> index, database |-> db_id ]

\* "if databases": None and the empty list are false
TruthyList(databases) == databases # None /\ databases[1] # { }
\* "if limit": None and 0 are false
TruthyInt(limit) == limit # None /\ limit[1] # 0

\* lines 543-547: run_benchmark calls load_spider_questions
CallLoadSpiderQuestions ==
    /\ load_call.pc = "idle"
    /\ \E data \in Sources, databases \in DatabaseFilters, limit \in Limits :
         load_call' = [NoLoadCall EXCEPT !.pc = "loop", !.data = data,
                                         !.databases = databases,
                                         !.limit = limit]
    /\ UNCHANGED << runVars, execVars, taskVars, storeVars, sqlVars >>

\* lines 126-145: one item of "for i, item in enumerate(data)"; i counts
\* from 0, data[i + 1] is item i
LoadItem ==
    /\ load_call.pc = "loop"
    /\ load_call.i < Len(load_call.data)
    /\ LET db_id == load_call.data[load_call.i + 1]
           skip == /\ TruthyList(load_call.databases)
                   /\ db_id \notin load_call.databases[1]
           questions == IF skip THEN load_call.questions
                        ELSE Append(load_call.questions,
                                    SpiderQuestion(load_call.i, db_id))
           break == /\ ~skip
                    /\ TruthyInt(load_call.limit)
                    /\ Len(questions) >= load_call.limit[1]
       IN  load_call' = [load_call EXCEPT !.questions = questions,
                                          !.i = @ + 1,
                                          !.pc = IF break THEN "return" ELSE "loop"]
    /\ UNCHANGED << runVars, execVars, taskVars, storeVars, sqlVars >>

\* line 147 and lines 549-552: return questions; question_count=len(questions)
LoadReturn ==
    /\ \/ load_call.pc = "return"
       \/ load_call.pc = "loop" /\ load_call.i = Len(load_call.data)
    /\ load_call' = [load_call EXCEPT
                       !.question_count = Some(Len(load_call.questions)),
                       !.pc = "done"]
    /\ UNCHANGED << runVars, execVars, taskVars, storeVars, sqlVars >>

InitLoad ==
    /\ InitRun({[run_type |-> "baseline", question_count |-> 0]})
    /\ calls = [c \in Callers |-> NoCall]
    /\ checked_out = 0
    /\ SideIdle

NextLoad ==
    \/ CallLoadSpiderQuestions
    \/ LoadItem
    \/ LoadReturn

SpecLoad == InitLoad /\ [][NextLoad]_vars

(***************************************************************************)
(* The claims.                                                             *)
(***************************************************************************)
HasRun == run_id \in DOMAIN benchmark_runs
Row == benchmark_runs[run_id]
TerminalStatuses == {"completed", "failed", "cancelled"}
\* the loop of run_benchmark has been left
LoopLeft == pc \in {"except_status", "except_progress", "done"}

\* C1: once the persisted status of the Run is completed, failed or
\* cancelled, no step of run_benchmark or cancel_run changes it.
C1_TerminalStatusIsFinal ==
    [][(HasRun /\ Row.status \in TerminalStatuses)
          => benchmark_runs'[run_id].status = Row.status]_vars

\* C2: as soon as a recorded cost has taken the in-memory total past the
\* ceiling, the question loop has been left with BudgetExceededError on its
\* way to the caller, and when run_benchmark is over the error has reached
\* the caller and the Run is failed with reason budget_exceeded.
C2_BudgetOverrunAbortsRun ==
    total_cost > BudgetLimit =>
        /\ LoopLeft
        /\ exc = Some(BudgetErrorText)
        /\ pc = "done" =>
             /\ outcome = "raised"
             /\ Row.status = "failed"
             /\ Row.status_reason = Some("budget_exceeded")

\* C3: once the in-memory total is past the ceiling, no step starts a
\* question (UpdateProgress) or calls a generator (ProcessBaseline,
\* ProcessEnhanced).
C3_NoWorkAfterOverrun ==
    [][total_cost > BudgetLimit
          => ~(UpdateProgress \/ ProcessBaseline \/ ProcessEnhanced)]_vars

\* the first index at or after time t at which the status is polled
NextPoll(t) ==
    ((t + CancelCheckInterval - 1) \div CancelCheckInterval) * CancelCheckInterval

\* question i is being processed
Processing == pc \in {"progress", "baseline", "enhanced", "save"}

\* C4: while the status written by a cancel request at time t (t questions
\* begun) stays cancelled, no question with an index at or beyond the first
\* multiple of 10 from t on is processed, and no Result of such a question
\* is written.
C4_CancelStopsByNextPoll ==
    (HasRun /\ Row.status = "cancelled") =>
        LET stop == NextPoll(Row.cancelled_at[1])
        IN  /\ Processing => i < stop
            /\ \A k \in DOMAIN benchmark_results :
                   benchmark_results[k].question_id < stop

\* cancelled while question 3 was processed, stopped at question 10
C4_Witness ==
    /\ HasRun
    /\ Row.status = "cancelled"
    /\ Row.cancelled_at = Some(4)
    /\ pc = "done"
    /\ outcome = "returned"
    /\ i = 10
    /\ Len(benchmark_results) = 10

\* the poll of this state reads cancelled
PollReadsCancelled ==
    /\ pc = "loop"
    /\ i < config.question_count
    /\ PollDue(i)
    /\ HasRun
    /\ Row.status = "cancelled"

\* C5: the step of run_benchmark in which the poll reads cancelled, no store
\* call of it raising, writes the counters with current_question cleared
\* and nothing else in the Run, inserts no Result, and returns.
C5_CancelledPollOnlyFlushes ==
    [][(PollReadsCancelled /\ pc' # pc /\ store_faults' = store_faults)
          => /\ benchmark_runs'[run_id] =
                    [Row EXCEPT !.completed_count = completed,
                                !.failed_count = failed,
                                !.current_question = None]
             /\ benchmark_results' = benchmark_results
             /\ pc' = "done"
             /\ outcome' = "returned"
             /\ exc' = None]_vars

\* the poll of question 10 has read cancelled and the run has returned
C5_Witness ==
    /\ HasRun
    /\ pc = "done"
    /\ outcome = "returned"
    /\ i = 10
    /\ Row.status = "cancelled"
    /\ Row.status_reason = Some("cancelled_by_user")
    /\ Row.current_question = None
    /\ Row.completed_count = 10

\* the row after cost has been added to its total and to approach's column
RowPlusCost(row, approach, cost) ==
    IF approach = "baseline"
    THEN [row EXCEPT !.total_cost_usd = @ + cost,
                     !.baseline_cost_usd =
                         IF @ = None THEN Some(cost) ELSE Some(@[1] + cost)]
    ELSE [row EXCEPT !.total_cost_usd = @ + cost,
                     !.enhanced_cost_usd =
                         IF @ = None THEN Some(cost) ELSE Some(@[1] + cost)]

\* C6: a step in which record_cost adds a cost to the in-memory total: if
\* the new total is above the ceiling, BudgetExceededError is raised and
\* the Run is not written; otherwise, the ceiling itself included, and the
\* store call not raising, the Run's total and the approach's column grow
\* by exactly that cost and the approach's result carries it.
C6_RecordCost ==
    [][\A approach \in {"baseline", "enhanced"} :
         (pc = approach /\ total_cost' # total_cost) =>
            LET cost == total_cost' - total_cost
                data == result_data'[1]
                error == IF approach = "baseline"
                         THEN data.baseline_error ELSE data.enhanced_error
                recorded == IF approach = "baseline"
                            THEN data.baseline_cost_usd ELSE data.enhanced_cost_usd
            IN  IF total_cost' > BudgetLimit
                THEN /\ error = Some(BudgetErrorText)
                     /\ benchmark_runs' = benchmark_runs
                ELSE store_faults' = store_faults =>
                     /\ benchmark_runs'[run_id] = RowPlusCost(Row, approach, cost)
                     /\ recorded = Some(cost)]_vars

\* a cost that took the total exactly to the ceiling has been persisted
C6_Witness ==
    /\ HasRun
    /\ total_cost = BudgetLimit
    /\ Row.total_cost_usd = BudgetLimit
    /\ Row.baseline_cost_usd # None
    /\ Row.enhanced_cost_usd # None

RECURSIVE SumResultCosts(_)
SumResultCosts(results) ==
    IF results = << >> THEN 0
    ELSE OrZero(Head(results).baseline_cost_usd)
         + OrZero(Head(results).enhanced_cost_usd)
         + SumResultCosts(Tail(results))

\* C7: the Run's persisted total cost, and the sum of the costs of its
\* saved Results, are at most the budget ceiling.
C7_PersistedCostWithinCeiling ==
    HasRun =>
        /\ Row.total_cost_usd <= BudgetLimit
        /\ SumResultCosts(benchmark_results) <= BudgetLimit

\* the ceiling has been overrun in memory, the persisted total stands at the
\* ceiling and the Result of the overrunning question is saved with cost 0
C7_Witness ==
    /\ HasRun
    /\ total_cost > BudgetLimit
    /\ Row.total_cost_usd = BudgetLimit
    /\ SumResultCosts(benchmark_results) = BudgetLimit
    /\ \E k \in DOMAIN benchmark_results :
          /\ benchmark_results[k].baseline_error = Some(BudgetErrorText)
          /\ benchmark_results[k].baseline_cost_usd = Some(0)

\* an approach of the question in progress has caught an exception other
\* than a budget overrun
ApproachRaised ==
    /\ result_data # None
    /\ \/ result_data[1].baseline_error
              \in {Some(GeneratorErrorText), Some(StoreErrorText)}
       \/ result_data[1].enhanced_error
              \in {Some(GeneratorErrorText), Some(StoreErrorText)}

\* C8, as stated: the question during which an exception other than a
\* budget overrun was raised, in an approach or in building and saving the
\* Result, ends with failed incremented by one and completed unchanged, and
\* the loop goes on.
C8_AnyQuestionExceptionCountsFailed ==
    [][(pc = "save" /\ pc' # pc
           /\ (ApproachRaised \/ store_faults' > store_faults))
          => /\ failed' = failed + 1
             /\ completed' = completed
             /\ i' = i + 1
             /\ pc' = "loop"]_vars

\* C8, amended: a step in which building or saving the Result raises
\* increments failed by one, leaves completed, the Run and the Results as
\* they are, and goes on to the next question; a step in which the Result is
\* saved counts the question completed, whatever its approaches caught.
C8_QuestionFailureIsLocal ==
    [][/\ (pc = "save" /\ store_faults' > store_faults)
          => /\ failed' = failed + 1
             /\ completed' = completed
             /\ i' = i + 1
             /\ pc' = "loop"
             /\ exc' = None
             /\ benchmark_runs' = benchmark_runs
             /\ benchmark_results' = benchmark_results
       /\ (pc = "save" /\ pc' # pc /\ store_faults' = store_faults)
          => /\ failed' = failed
             /\ completed' = completed + 1
             /\ i' = i + 1
             /\ pc' = "loop"]_vars

\* a run with a failed question and a later completed one ended completed
C8_Witness ==
    /\ HasRun
    /\ pc = "done"
    /\ outcome = "returned"
    /\ Row.status = "completed"
    /\ Row.failed_count = 1
    /\ Row.completed_count = 1
    /\ Len(benchmark_results) = 1
    /\ benchmark_results[1].question_id = 1

\* the fields of a zero-cost failure
IsZeroCostFailure(sql, exact_match, exec_match, error, cost_usd, tokens_used) ==
    /\ sql = None
    /\ exact_match = Some(FALSE)
    /\ exec_match = Some(FALSE)
    /\ error # None
    /\ cost_usd = Some(0)
    /\ tokens_used = Some(0)

\* C9: a step in which an approach's generator call fails gives that
\* approach the fields of a zero-cost failure and goes on with the question;
\* the step in which save_result then succeeds appends the Result and
\* counts the question completed, not failed.
C9_GeneratorFailureIsRecorded ==
    [][/\ (pc = "baseline" /\ pc' # pc
              /\ result_data'[1].baseline_error = Some(GeneratorErrorText))
          => LET d == result_data'[1]
             IN  /\ IsZeroCostFailure(d.baseline_sql, d.baseline_exact_match,
                                      d.baseline_exec_match, d.baseline_error,
                                      d.baseline_cost_usd, d.baseline_tokens_used)
                 /\ pc' \in {"enhanced", "save"}
       /\ (pc = "enhanced" /\ pc' # pc
              /\ result_data'[1].enhanced_error = Some(GeneratorErrorText))
          => LET d == result_data'[1]
             IN  /\ IsZeroCostFailure(d.enhanced_sql, d.enhanced_exact_match,
                                      d.enhanced_exec_match, d.enhanced_error,
                                      d.enhanced_cost_usd, d.enhanced_tokens_used)
                 /\ pc' = "save"
       /\ (pc = "save" /\ pc' # pc /\ store_faults' = store_faults)
          => /\ benchmark_results' = Append(benchmark_results, result_data[1])
             /\ completed' = completed + 1
             /\ failed' = failed]_vars

\* run_type both: a saved Result whose baseline generator failed and whose
\* enhanced approach succeeded, the question counted completed
C9_Witness ==
    /\ config.run_type = "both"
    /\ completed = 1
    /\ failed = 0
    /\ Len(benchmark_results) = 1
    /\ benchmark_results[1].baseline_error = Some(GeneratorErrorText)
    /\ benchmark_results[1].baseline_sql = None
    /\ benchmark_results[1].enhanced_sql # None
    /\ benchmark_results[1].enhanced_cost_usd = Some(3)

\* C10: a finished call of check_execution_match in which executing the
\* gold statement raised an error has returned false with a message that
\* begins with 'Gold SQL failed', and has not sent the generated statement
\* to the database.
C10_GoldErrorIsReported ==
    \A c \in Callers :
        (calls[c].pc = "done" /\ calls[c].gold_raised)
            => /\ calls[c].result # None
               /\ calls[c].result[1].kind = "returned"
               /\ calls[c].result[1].match = FALSE
               /\ calls[c].result[1].error # None
               /\ Head(calls[c].result[1].error[1]) = "Gold SQL failed: "
               /\ \A k \in DOMAIN calls[c].executed :
                      calls[c].executed[k] # "generated"

\* the two row lists hold every row the same number of times
SameMultiset(rows1, rows2) ==
    \A x \in {rows1[k] : k \in DOMAIN rows1} \cup {rows2[k] : k \in DOMAIN rows2} :
        Cardinality({k \in DOMAIN rows1 : rows1[k] = x})
            = Cardinality({k \in DOMAIN rows2 : rows2[k] = x})

C12_ConnectionsReturned ==
    /\ \A c \in Callers : calls[c].pc = "done" => calls[c].unreturned = 0
    /\ (\A c \in Callers : calls[c].pc = "done")
           => checked_out \in {0, MaxConn - 1, MaxConn}

\* execute_sql_safely is over for the caller: it has returned or raised
ExecuteOver(call) == call.pc \in {"returned", "done"} /\ call.attempts # << >>

\* C13: within one call of execute_sql_safely there are at most 3 attempts,
\* each attempt but the last has met a connection-level operational error,
\* and the call ends at an attempt that met an operational error only if
\* that was the third, and then by returning an error string; an attempt
\* that met a non-operational error ends the call by returning the error
\* string.
C13_RetryOnOperationalError ==
    \A c \in Callers :
        LET call == calls[c]
            log == call.attempts
            n == Len(log)
        IN  /\ n <= MaxAttempts
            /\ \A k \in 1 .. n - 1 : log[k] = "operational"
            /\ (ExecuteOver(call) /\ log[n] = "operational")
                   => /\ n = MaxAttempts
                      /\ call.pc = "returned"
                      /\ call.pending[1].error # None
            /\ (ExecuteOver(call) /\ log[n] = "error" /\ call.pc = "returned")
                   => call.pending[1].error # None
            /\ (n > 0 /\ log[n] = "error") => ExecuteOver(call)

\* C14: a getconn on a pool with all its connections checked out does not
\* fail, the caller stays where it is until a connection is put back, and
\* never more than 10 connections are checked out.
C14_ExhaustedPoolBlocks ==
    [][/\ \A c \in Callers :
             (calls[c].pc = "getconn" /\ checked_out >= MaxConn)
                 => calls'[c] = calls[c]
       /\ checked_out' <= MaxConn]_vars

\* C15, as stated: when run_benchmark has raised after the run was marked
\* running, the Run is failed with reason fatal_error, the error text and
\* the final counters; and when run_benchmark is over the Run's status is
\* not running.
C15_FatalErrorPersisted ==
    (pc = "done" /\ HasRun)
        => /\ Row.status # "running"
           /\ (outcome = "raised" /\ Row.started_at # None)
                 => /\ Row.status = "failed"
                    /\ Row.status_reason = Some("fatal_error")
                    /\ Row.last_error # None
                    /\ Row.completed_count = completed
                    /\ Row.failed_count = failed
                    /\ Row.current_question = None

\* C15, amended: the first step of the except clause, when its store call
\* does not raise, writes status failed, reason fatal_error and the text of
\* the exception; the second, when its store call does not raise, writes
\* the final counters with current_question cleared and only then does the
\* exception reach the caller; with no store call raising in the except
\* clause, an exception reaches the caller of a running run from nowhere
\* else.
C15_ExceptClausePersists ==
    [][/\ (pc = "except_status" /\ pc' = "except_progress")
          => /\ benchmark_runs'[run_id].status = "failed"
             /\ benchmark_runs'[run_id].status_reason = Some("fatal_error")
             /\ benchmark_runs'[run_id].last_error = exc
             /\ exc # None /\ exc' = exc
             /\ outcome' = "none"
       /\ (pc = "except_progress" /\ pc' # pc /\ store_faults' = store_faults)
          => /\ benchmark_runs'[run_id] =
                    [Row EXCEPT !.completed_count = completed,
                                !.failed_count = failed,
                                !.current_question = None]
             /\ outcome' = "raised"
             /\ exc' = exc
       /\ (pc \notin {"start", "mark_running"} /\ outcome = "none"
              /\ outcome' = "raised" /\ store_faults' = store_faults)
          => pc = "except_progress"]_vars

\* the store failed once after a question was completed; the run is failed
\* with the error text and the counters, and the exception has been raised
C15_Witness ==
    /\ pc = "done"
    /\ outcome = "raised"
    /\ HasRun
    /\ Row.status = "failed"
    /\ Row.status_reason = Some("fatal_error")
    /\ Row.last_error = Some(StoreErrorText)
    /\ Row.current_question = None
    /\ Row.completed_count = 1
    /\ store_faults = 1

\* C16, as stated: no exception leaves run_benchmark.
C16_NoExceptionEscapes == outcome # "raised"

\* C16, amended: an exception leaves run_benchmark from the calls before
\* the try block (loading the questions, create_run, update_run_status) and
\* from the except clause, which raises again when its writes are done or
\* when one of them raises; it never leaves from the handling of a question
\* (generator, budget overrun, save_result), which always goes on.
C16_ExceptionsEscapeOutsideQuestions ==
    [][/\ (outcome = "none" /\ outcome' = "raised")
          => /\ pc \in {"start", "mark_running", "except_status", "except_progress"}
             /\ exc' # None
       /\ (pc = "except_progress" /\ pc' # pc) => outcome' = "raised"
       /\ (pc \in {"start", "mark_running", "except_status"}
              /\ store_faults' > store_faults) => outcome' = "raised"
       /\ (pc \in {"baseline", "enhanced", "save"} /\ pc' # pc)
          => /\ pc' \in {"enhanced", "save", "loop"}
             /\ outcome' = "none"
             /\ exc' = None]_vars

\* create_run raised: the exception has left run_benchmark and there is no
\* Run and no Result to show it
C16_Witness ==
    /\ pc = "done"
    /\ outcome = "raised"
    /\ exc = Some(StoreErrorText)
    /\ benchmark_runs = << >>
    /\ benchmark_results = << >>

\* C17, as stated: run_benchmark terminates, and once it is over the Run's
\* status is completed, failed or cancelled.
C17_TerminatesInTerminalStatus ==
    <>[](pc = "done" /\ (HasRun => Row.status \in TerminalStatuses))

\* C17, amended: run_benchmark terminates; when it has returned, the Run's
\* status is completed or cancelled; when it has raised, there is no Run, or
\* the Run is pending, failed or cancelled, or it is still running or
\* completed, which is the case only after a second store call raised, the
\* one of the except clause.
C17_Terminates ==
    /\ <>(pc = "done")
    /\ [](pc = "done" =>
            /\ outcome \in {"returned", "raised"}
            /\ outcome = "returned"
                  => HasRun /\ Row.status \in {"completed", "cancelled"}
            /\ (outcome = "raised" /\ HasRun)
                  => \/ Row.status \in {"pending", "failed", "cancelled"}
                     \/ /\ Row.status \in {"running", "completed"}
                        /\ store_faults >= 2)

\* a baseline run of two questions has returned after both, completed
C17_Witness ==
    /\ pc = "done"
    /\ outcome = "returned"
    /\ i = 2
    /\ config.question_count = 2
    /\ HasRun
    /\ Row.status = "completed"
    /\ Row.completed_count = 2

\* the four aggregate metrics of a Run row
MetricsOf(row) ==
    << row.baseline_exact_match, row.baseline_exec_match,
       row.enhanced_exact_match, row.enhanced_exec_match >>
NoMetrics == << None, None, None, None >>
\* the rates of the Results the run has saved so far
RatesOfResults ==
    LET data == ResultsOf(benchmark_results, run_id)
    IN  << Rate(data, "baseline_exact_match"), Rate(data, "baseline_exec_match"),
           Rate(data, "enhanced_exact_match"), Rate(data, "enhanced_exec_match") >>
\* the step from the exhausted loop to the completed-status write
LoopExhausts == pc = "loop" /\ pc' = "mark_completed"

\* C18, as stated: a run that ends failed or cancelled has no aggregate
\* metrics: they were never computed for it.
C18_NoMetricsUnlessCompleted ==
    (pc = "done" /\ HasRun /\ Row.status \in {"failed", "cancelled"})
        => MetricsOf(Row) = NoMetrics

\* C18, amended: the metrics of the Run are written by one step only, the
\* one that leaves the exhausted loop (i = question_count); that step writes
\* the rates of the saved Results (nothing when there is no Result); the
\* status becomes completed only in the step after it; and a run whose loop
\* has not been exhausted has no metrics, whatever its status.
C18_MetricsAtLoopExhaustion ==
    /\ [](HasRun /\ i < config.question_count => MetricsOf(Row) = NoMetrics)
    /\ [][ /\ (HasRun /\ MetricsOf(Row') # MetricsOf(Row)) => LoopExhausts
           /\ LoopExhausts =>
                 /\ i = config.question_count
                 /\ Row.status # "completed"
                 /\ MetricsOf(Row') =
                       IF ResultsOf(benchmark_results, run_id) = << >>
                       THEN NoMetrics ELSE RatesOfResults
           /\ (HasRun /\ Row.status # "completed" /\ Row'.status = "completed")
                 => pc = "mark_completed"
         ]_vars

\* the metrics were computed and the completed-status write then raised: the
\* run has ended failed, with its metrics persisted
C18_Witness ==
    /\ pc = "done"
    /\ outcome = "raised"
    /\ HasRun
    /\ Row.status = "failed"
    /\ MetricsOf(Row) # NoMetrics
    /\ MetricsOf(Row) = RatesOfResults

\* C19: no step of the run or of cancel_run lowers the persisted
\* total_cost_usd of the Run.
C19_TotalCostNeverDecreases ==
    [][HasRun => Row'.total_cost_usd >= Row.total_cost_usd]_vars

\* both approaches of one question have been paid for and recorded
C19_Witness ==
    /\ HasRun
    /\ Row.baseline_cost_usd = Some(2)
    /\ Row.enhanced_cost_usd = Some(3)
    /\ Row.total_cost_usd = 5

\* run_benchmark is between the progress write of question i and the end of
\* its loop iteration
InQuestion == pc \in {"baseline", "enhanced", "save"}

\* C20: the completed and failed counters of the Run never decrease; the
\* progress write of question i comes after question i-1 has been counted
\* and before question i is processed: while question i is processed the Run
\* shows question i and the counts of the i questions before it, and the
\* questions are written one after the other, from the first on.
C20_ProgressInQuestionOrder ==
    /\ [][HasRun => /\ Row'.completed_count >= Row.completed_count
                     /\ Row'.failed_count >= Row.failed_count]_vars
    /\ [](InQuestion =>
            /\ HasRun
            /\ Row.current_question = Some(i)
            /\ Row.completed_count = completed
            /\ Row.failed_count = failed
            /\ completed + failed = i)
    /\ [][(HasRun /\ Row'.current_question \notin {None, Row.current_question})
            => /\ ~InQuestion
               /\ InQuestion'
               /\ Row'.current_question = Some(i)
               /\ Row.current_question = IF i = 0 THEN None ELSE Some(i - 1)
               /\ Row'.completed_count + Row'.failed_count = i]_vars

\* the second question is being processed after the first one failed
C20_Witness ==
    /\ pc = "baseline"
    /\ i = 1
    /\ HasRun
    /\ Row.current_question = Some(1)
    /\ Row.failed_count = 1
    /\ Row.completed_count = 0

\* the sum of the first k numbers of a sequence
RECURSIVE SumTo(_, _)
SumTo(seq, k) == IF k = 0 THEN 0 ELSE SumTo(seq, k - 1) + seq[k]
\* the sum of the costs of task t that record_cost did not refuse
RECURSIVE AcceptedTo(_, _)
AcceptedTo(t, k) ==
    IF k = 0 THEN 0
    ELSE AcceptedTo(t, k - 1) + (IF tasks[t].raised[k] THEN 0 ELSE tasks[t].costs[k])
\* task t has a Run
TaskHasRun(t) == tasks[t].run_id \in DOMAIN benchmark_runs
TaskRow(t) == benchmark_runs[tasks[t].run_id]

HasBaseline(r) == r.baseline_cost_usd # None /\ r.baseline_exec_match # None
HasEnhanced(r) == r.enhanced_cost_usd # None /\ r.enhanced_exec_match # None

\* C22: the benchmark_results table only grows, by one row at a time and
\* never by a change to a row it holds; no two rows are of the same run and
\* question; there are no more rows than questions begun; and a row carries
\* the fields of exactly the approaches of the run_type, both in one row
\* when the run_type is both.
C22_OneResultPerQuestion ==
    /\ [][\/ benchmark_results' = benchmark_results
          \/ /\ Len(benchmark_results') = Len(benchmark_results) + 1
             /\ SubSeq(benchmark_results', 1, Len(benchmark_results))
                   = benchmark_results
             /\ benchmark_results'[Len(benchmark_results')].question_id = i
             /\ i' = i + 1
         ]_vars
    /\ [](/\ \A a, b \in DOMAIN benchmark_results :
               (/\ benchmark_results[a].run_id = benchmark_results[b].run_id
                /\ benchmark_results[a].question_id
                      = benchmark_results[b].question_id) => a = b
          /\ Len(benchmark_results) <= i
          /\ \A a \in DOMAIN benchmark_results :
               /\ benchmark_results[a].run_id = run_id
               /\ HasBaseline(benchmark_results[a])
                     <=> config.run_type \in {"baseline", "both"}
               /\ HasEnhanced(benchmark_results[a])
                     <=> config.run_type \in {"enhanced", "both"})

\* a run of both approaches has saved its two questions, one row each
C22_Witness ==
    /\ config.run_type = "both"
    /\ i = 2
    /\ Len(benchmark_results) = 2
    /\ benchmark_results[1].question_id = 0
    /\ benchmark_results[2].question_id = 1
    /\ \A a \in 1 .. 2 :
         HasBaseline(benchmark_results[a]) /\ HasEnhanced(benchmark_results[a])

\* C23: when a transient network error of a BenchmarkStore operation has
\* reached the caller, the failing request was attempted 5 times.
C23_StoreOperationsRetried ==
    (/\ store_call.pc = "raised"
     /\ store_call.op \in StoreOperations
     /\ store_call.attempts[Len(store_call.attempts)] \in TransientErrors)
        => Len(store_call.attempts) = MaxStoreAttempts

\* C24: check_exact_match(s, s) is true for every statement s.
C24_ExactMatchIsReflexive ==
    (sql_call.pc = "done" /\ sql_call.generated_sql = sql_call.gold_sql)
        => sql_call.result = Some(TRUE)

SelectDqParis == << Word("SELECT"), Dq("Paris") >>
SelectSqParis == << Word("SELECT"), Sq("Paris") >>

\* C25: sqlite_to_postgres_sql turns SELECT "Paris" into SELECT 'Paris',
\* and translating and normalizing the statement once more gives the
\* normalized form the call has computed.
C25_SelectParisIsTranslated ==
    (sql_call.pc \in {"compare", "done"} /\ sql_call.gold_sql = SelectDqParis)
        => /\ sql_call.gold_sql_converted = SelectSqParis
           /\ NormalizeSql(SqliteToPostgresSql(sql_call.gold_sql))
                 = sql_call.norm_gold

\* the questions of data whose database is in databases (all of them when
\* databases is None), in source order, each with its index in data
RECURSIVE MatchesOf(_, _, _)
MatchesOf(data, databases, n) ==
    IF n = 0 THEN << >>
    ELSE IF databases = None \/ data[n] \in databases[1]
    THEN Append(MatchesOf(data, databases, n - 1), SpiderQuestion(n - 1, data[n]))
    ELSE MatchesOf(data, databases, n - 1)
\* the first limit of a list, the whole list when limit is None
FirstOf(list, limit) ==
    IF limit = None \/ limit[1] >= Len(list) THEN list
    ELSE SubSeq(list, 1, limit[1])

\* C26: load_spider_questions returns the questions whose database is in
\* databases, in source order, cut to the first limit of them, each with
\* its index in the source, and question_count is the length of that list.
C26_LoadReturnsFilteredPrefix ==
    load_call.pc = "done" =>
        /\ load_call.questions
              = FirstOf(MatchesOf(load_call.data, load_call.databases,
                                  Len(load_call.data)),
                        load_call.limit)
        /\ load_call.question_count = Some(Len(load_call.questions))

\* C27: whenever run_benchmark stands at the head of its loop, before
\* question i, completed + failed = i; at every point the completed counter
\* is the number of Results saved for the run, and completed + failed is
\* at most the question_count of the Run.
C27_CountersMatchTheLoop ==
    /\ pc = "loop" => completed + failed = i
    /\ completed = Len(ResultsOf(benchmark_results, run_id))
    /\ completed + failed <= config.question_count
    /\ HasRun => completed + failed <= Row.question_count

\* before the third question: one question saved, one failed
C27_Witness ==
    /\ pc = "loop"
    /\ i = 2
    /\ completed = 1
    /\ failed = 1
    /\ Len(benchmark_results) = 1

\* C28: a Run that is read with status completed has
\* completed_count + failed_count = question_count and no current_question.
C28_CompletedRunIsFlushed ==
    (HasRun /\ Row.status = "completed") =>
        /\ Row.completed_count + Row.failed_count = Row.question_count
        /\ Row.current_question = None

\* the fields of the approach that the step has just processed
ProcessedFields ==
    IF pc = "baseline"
    THEN [ cost_usd   |-> result_data'[1].baseline_cost_usd,
           exec_match |-> result_data'[1].baseline_exec_match,
           error      |-> result_data'[1].baseline_error ]
    ELSE [ cost_usd   |-> result_data'[1].enhanced_cost_usd,
           exec_match |-> result_data'[1].enhanced_exec_match,
           error      |-> result_data'[1].enhanced_error ]

\* C29: once the in-memory total of a run is above the ceiling, every approach
\* processed afterwards leaves the persisted costs as they are, keeps the
\* total above the ceiling, and is recorded with cost 0, exec_match false and
\* an error.
C29_OverBudgetRecordsFailures ==
    [][ (pc \in {"baseline", "enhanced"} /\ pc' # pc
                                       /\ total_cost > BudgetLimit) =>
           /\ benchmark_runs' = benchmark_runs
           /\ total_cost' >= total_cost
           /\ ProcessedFields.cost_usd = Some(0)
           /\ ProcessedFields.exec_match = Some(FALSE)
           /\ ProcessedFields.error # None ]_vars

\* a question whose baseline call was refused after the total had already
\* passed the ceiling: the refused costs are kept in the total
C29_Witness ==
    /\ pc = "enhanced"
    /\ \A cost \in Costs : total_cost - cost > BudgetLimit
    /\ result_data # None
    /\ result_data[1].baseline_cost_usd = Some(0)
    /\ result_data[1].baseline_error = Some(BudgetErrorText)

\* C30: in every state the persisted total_cost_usd of a Run is its persisted
\* baseline_cost_usd plus its persisted enhanced_cost_usd, an unset column
\* counting as 0.
C30_TotalIsSumOfApproaches ==
    \A rid \in DOMAIN benchmark_runs :
        benchmark_runs[rid].total_cost_usd
            = OrZero(benchmark_runs[rid].baseline_cost_usd)
              + OrZero(benchmark_runs[rid].enhanced_cost_usd)

\* a Run that has accepted costs of both approaches
C30_Witness ==
    /\ HasRun
    /\ Row.baseline_cost_usd # None /\ Row.baseline_cost_usd # Some(0)
    /\ Row.enhanced_cost_usd # None /\ Row.enhanced_cost_usd # Some(0)


============================================================================
